---- MODULE Spec2Model ----
(***************************************************************************)
(* Trade lifecycle of the momentum bot: the 15m cycle (MomentumBot.        *)
(* on_15m_close), the execution sequence (ExecutionManager.execute_trade   *)
(* and handle_protection_failure), the startup reconciliation              *)
(* (MomentumBot.reconcile_state) and the persisted halt state.             *)
(***************************************************************************)
EXTENDS Naturals, Integers, Sequences, FiniteSets, TLC

\* Number of trade plans the model lets the bot persist.
MaxPlans == 2

\* The traded instruments (two entries of the watchlist are enough for the
\* symbol comparisons of the reconciler).
Symbols == {"BTCUSDT", "ETHUSDT"}

\* Position.status values of the non-terminal states (store.py:51).
NonTerminal == {"OPENING", "OPEN", "CLOSING"}

VARIABLES
    pc,            \* where the running cycle stands ("idle" between cycles)
    haltRow,       \* the system_halt_state row: "none", "false" or "true"
    plans,         \* trade_plan table: sequence of [symbol, status]
    positions,     \* position table: sequence of [plan, symbol, status]
    exPos,         \* symbols on which the exchange reports a non-zero position
    exOrders,      \* live protective orders on the exchange: [symbol, role]
    calls,         \* exchange calls made by the current cycle, in order
    cur,           \* id of the trade plan persisted by the current cycle, 0 if none
    slRes, tpRes,  \* results of the two protective submissions
    outcome,       \* how execute_trade ended in the current cycle
    cycleResult,   \* how the last cycle ended
    haltedAtStart, \* the halt row was set when the current cycle started
    recon,         \* what the last run of reconcile_state did
    notifs,        \* notifications sent by the current cycle
    notify_status, \* how the notify calls of the current cycle ended
    acct,          \* account state the pre-trade check of the current cycle read
    issued,        \* the last two client order ids generated (newest first)
    given,         \* the candidate list handed to select_best_signal
    signals,       \* that list as select_best_signal leaves it (sorted in place)
    best_signal,   \* what select_best_signal returned
    sizing,        \* the arguments handed to calculate_trade_plan
    trade_plan,    \* the TradePlan calculate_trade_plan returned
    rounding,      \* the arguments handed to round_step
    rounded,       \* what round_step returned, and what it returns for that result
    inst_info,     \* the stepSize and tickSize of the instrument being traded
    plan_rounded,  \* the trade plan's quantity and prices have been rounded
    exit_args,     \* the arguments handed to should_exit
    exit_result,   \* what should_exit did with them
    eval_args,     \* the arguments handed to evaluate_signal
    eval_result,   \* what evaluate_signal did with them
    instruments,   \* the active instruments, each with its bundle and market data
    scan_pc,       \* where the signal generation of the cycle stands
    scan_i,        \* the position of the next instrument of the loop
    cycle_snapshot, \* on_15m_close's variable snapshot (<<>> while unbound)
    cycle_bundle,  \* on_15m_close's variable bundle (<<>> for None or unbound)
    plan_args,     \* what the trade plan of the cycle was built from
    fire_times,    \* how many fire times of the cron trigger have passed
    job_runs,      \* the runs of on_15m_close the scheduler started, each with its position
    open_position, \* the position table holds a row in a non-terminal state
    entries,       \* how many ENTRY orders the runs have submitted
    api_outcomes,  \* the success flags handed to record_api_call, oldest first
    error_count,   \* SafetySupervisor.error_count
    total_requests, \* SafetySupervisor.total_requests
    halt_raised,   \* the last record_api_call raised SafetyHaltException
    latency_warning \* the last record_api_call logged the latency warning

\* The state of the trade lifecycle.
coreVars == <<pc, haltRow, plans, positions, exPos, exOrders, calls, cur,
              slRes, tpRes, outcome, cycleResult, haltedAtStart, recon, notifs, notify_status, acct>>

\* The state of the evaluations of the pure components (client order ids,
\* Selector, RiskEngine), which the lifecycle actions leave alone.
roundVars == <<rounding, rounded>>
sizedVars == <<inst_info, plan_rounded>>
exitVars == <<exit_args, exit_result>>
evalVars == <<eval_args, eval_result>>
scanVars == <<instruments, scan_pc, scan_i, cycle_snapshot, cycle_bundle, plan_args>>
schedVars == <<fire_times, job_runs, open_position, entries>>
safetyVars == <<api_outcomes, error_count, total_requests, halt_raised, latency_warning>>

fnVars == <<roundVars, sizedVars, exitVars, evalVars, scanVars, schedVars, safetyVars>>

pureVars == <<issued, given, signals, best_signal, sizing, trade_plan, fnVars>>

vars == <<pc, haltRow, plans, positions, exPos, exOrders, calls, cur,
          slRes, tpRes, outcome, cycleResult, haltedAtStart, recon, notifs, notify_status, acct,
          issued, given, signals, best_signal, sizing, trade_plan, fnVars>>

-----------------------------------------------------------------------------
(* Persistence                                                             *)

\* DataStore.is_system_halted: the row's flag, False when there is no row.
\* (variant: the gate never reports a halt)
is_system_halted_nogate(row) == FALSE

is_system_halted(row) == IF row = "none" THEN FALSE ELSE row = "true"

\* DataStore.get_open_position: the position in a non-terminal status
\* (its index in the table), 0 for None.
\* (variant: the status filter keeps OPENING only)
get_open_position_opening_only(P) ==
    LET S == {i \in 1..Len(P) : P[i].status = "OPENING"}
    IN  IF S = {} THEN 0 ELSE CHOOSE i \in S : TRUE

get_open_position(P) ==
    LET S == {i \in 1..Len(P) : P[i].status \in NonTerminal}
    IN  IF S = {} THEN 0 ELSE CHOOSE i \in S : TRUE

-----------------------------------------------------------------------------
(* Exchange calls                                                          *)

\* One recorded call of the exchange client.
Call(op, kind, sym, plan, ro, res, cid) ==
    [op |-> op, kind |-> kind, sym |-> sym, plan |-> plan, ro |-> ro, res |-> res,
     cid |-> cid]

\* A client order id is a string; it is modelled as the sequence of its
\* pieces, every underscore a piece of its own, so that the fields of an
\* id can be read back from it.
Sep == "_"

\* MomentumBot.bot_id, the default of the BOT_ID environment variable.
BotId == <<"mb">>

\* str(db_plan.trade_plan_id): the text of the plan's UUID.
PlanId(plan) == <<ToString(plan)>>

\* The default of the attempt parameter, which every caller relies on.
DefaultAttempt == 1

\* The order_role arguments the callers pass.
ROLE_ENTRY == <<"ENTRY">>
ROLE_STOP == <<"STOP">>
ROLE_TP == <<"TP">>
ROLE_CLOSE_EMERGENCY == <<"CLOSE", Sep, "EMERGENCY">>

\* No client order id: the call is not an order submission.
NoCid == <<>>

\* ExchangeInterface.generate_client_order_id
\* (variant: the role is left out of the id)
generate_client_order_id_without_role(trade_plan_id, role, attempt) ==
    BotId \o <<Sep>> \o trade_plan_id \o <<Sep>> \o <<ToString(attempt)>>

\* (variant: the plan id is left out of the id)
generate_client_order_id_without_plan(trade_plan_id, role, attempt) ==
    BotId \o <<Sep>> \o role \o <<Sep>> \o <<ToString(attempt)>>

generate_client_order_id(trade_plan_id, role, attempt) ==
    BotId \o <<Sep>> \o trade_plan_id \o <<Sep>> \o role \o <<Sep>> \o <<ToString(attempt)>>

\* ExchangeInterface.place_market_entry
place_market_entry(sym, plan, res, cid) == Call("ENTRY", "MARKET", sym, plan, FALSE, res, cid)

\* ExchangeInterface.place_stop_loss
place_stop_loss(sym, plan, res, cid) ==
    Call("STOP", "STOP_MARKET", sym, plan, TRUE, res, cid)

\* ExchangeInterface.place_take_profit
place_take_profit(sym, plan, res, cid) == Call("TP", "LIMIT", sym, plan, TRUE, res, cid)

\* ExchangeInterface.close_position_market
\* (variant: the close order is sent without reduceOnly)
close_position_market_not_reduce_only(sym, plan, res, cid) ==
    Call("CLOSE", "MARKET", sym, plan, FALSE, res, cid)

close_position_market(sym, plan, res, cid) ==
    Call("CLOSE", "MARKET", sym, plan, TRUE, res, cid)

\* ExchangeInterface.cancel_all_orders
cancel_all_orders(sym, plan, res) == Call("CANCEL_ALL", "-", sym, plan, FALSE, res, NoCid)

\* ExchangeInterface.ensure_isolated_1x, first call: the leverage is set
\* to 1x.
futures_change_leverage(sym, plan, res) ==
    Call("LEVERAGE", "-", sym, plan, FALSE, res, NoCid)

\* ExchangeInterface.ensure_isolated_1x, second call, made once the first
\* returned: the margin type is set to ISOLATED.  The call ends "ok", with
\* one of the codes the handler means to ignore ("benign"), or with another
\* error ("fail").
futures_change_margin_type(sym, plan, res) ==
    Call("MARGIN", "-", sym, plan, FALSE, res, NoCid)

\* Whether ensure_isolated_1x returned without raising.
\* (variant: pre-flight errors are ignored)
preflight_passed_ignoring_errors(lev, mar) == TRUE

\* The handler of the benign codes logs through the name logger, which
\* exchange.py neither defines nor imports: the NameError leaves
\* ensure_isolated_1x as every other margin error does.
preflight_passed(lev, mar) == lev = "ok" /\ mar = "ok"

-----------------------------------------------------------------------------
(* execute_trade control flow                                              *)

\* After client_preflight: go on to the entry, or return False.
after_preflight(lev, mar) ==
    IF preflight_passed(lev, mar) THEN "entry" ELSE "mark_failed"

\* After the leverage call: go on to the margin call, or leave
\* ensure_isolated_1x with the exception.
after_leverage(lev) ==
    IF lev = "ok" THEN "margin" ELSE after_preflight(lev, "unsent")

\* After place_market_entry: go on to the protective orders, or return False.
\* (variant: the entry failure is not checked)
after_entry_always_protect(res) == "protect"

\* (variant: a rejected ENTRY is handled as a protection failure)
after_entry_failure_as_emergency(res) == IF res = "ok" THEN "protect" ELSE "emergency_close"

after_entry(res) == IF res = "ok" THEN "protect" ELSE "mark_failed"

\* asyncio.gather(sl_task, tp_task, return_exceptions=True) returns when both
\* submissions have ended, by a result or by an exception.
\* (variant: gather without return_exceptions, which raises the first
\* exception as soon as it happens)
gather_first_exception(sl, tp) ==
    \/ sl \in {"ok", "fail"} /\ tp \in {"ok", "fail"}
    \/ sl = "fail"
    \/ tp = "fail"

gather(sl, tp) == sl \in {"ok", "fail"} /\ tp \in {"ok", "fail"}

\* The loop over the gathered results: any exception is re-raised.
\* (variant: only the first gathered result is examined)
results_ok_first_only(sl, tp) == sl = "ok"

results_ok(sl, tp) == sl = "ok" /\ tp = "ok"

\* handle_protection_failure after the close attempt: the exception of a
\* failed close is swallowed and the cancel is attempted next.
\* (variant: a failed close skips the cancel)
after_close_propagating(res) == IF res = "ok" THEN "cancel_all" ELSE "raise_halt"

after_close(res) == "cancel_all"

-----------------------------------------------------------------------------
(* Reconciliation                                                          *)

\* Exchange positions without a matching local open-position record.
Unmatched(ex, P) ==
    LET p == get_open_position(P)
    IN  {s \in ex : ~(p # 0 /\ P[p].symbol = s)}

\* MomentumBot.reconcile_state: what the caller gets (ret, raised), what is
\* logged (warned) and the records it writes (created: none).  Every
\* exception is caught and None returned.
reconcile_state(apiOk, ex, P) ==
    [ret     |-> IF apiOk THEN get_open_position(P) ELSE 0,
     raised  |-> FALSE,
     warned  |-> IF apiOk THEN Unmatched(ex, P) ELSE {},
     created |-> {}]

\* The record kept of a run of reconcile_state: its result, the exchange
\* positions it was given, and what it returns when the exchange is flat.
ReconRecord(apiOk, ex, P) ==
    [ran      |-> TRUE,
     reported |-> IF apiOk THEN ex ELSE {},
     unmatched|-> IF apiOk THEN {s \in ex : \A i \in 1..Len(P) :
                        ~(P[i].status \in NonTerminal /\ P[i].symbol = s)} ELSE {},
     ret      |-> reconcile_state(apiOk, ex, P).ret,
     raised   |-> reconcile_state(apiOk, ex, P).raised,
     warned   |-> reconcile_state(apiOk, ex, P).warned,
     created  |-> reconcile_state(apiOk, ex, P).created,
     flatRet  |-> reconcile_state(apiOk, {}, P).ret]

-----------------------------------------------------------------------------
(* Safety Supervisor                                                       *)

\* What futures_position_information can give the pre-trade check: a row at
\* 1x isolated, an empty list, a row with another leverage, a row with
\* another margin type, or an API error.
AccountStates == {"ok", "empty", "bad_leverage", "bad_margin", "api_error"}

\* SafetySupervisor.validate_account_state: TRUE when it raises
\* SafetyHaltException.  An empty list returns, an API error is logged.
\* (variant: the margin type is not checked)
validate_account_state_leverage_only(a) == a = "bad_leverage"

validate_account_state(a) == a \in {"bad_leverage", "bad_margin"}

\* select_best_signal has not been called.  Once it has, ret holds what it
\* returned: the empty sequence for None, else the one candidate.
NotSelected == [called |-> FALSE, ret |-> <<>>]

\* The pure components are not being evaluated.
RoundIdle == rounding = <<>> /\ rounded = <<>>

SizedIdle == inst_info = <<>> /\ plan_rounded = FALSE

ExitIdle == exit_args = <<>> /\ exit_result = <<>>

EvalIdle == eval_args = <<>> /\ eval_result = <<>>

ScanIdle ==
    /\ instruments = <<>>
    /\ scan_pc = "idle"
    /\ scan_i = 0
    /\ cycle_snapshot = <<>>
    /\ cycle_bundle = <<>>
    /\ plan_args = <<>>

SchedIdle ==
    /\ fire_times = 0
    /\ job_runs = <<>>
    /\ open_position = FALSE
    /\ entries = 0

\* SafetySupervisor.__init__: both counters start at zero.
SafetyIdle ==
    /\ api_outcomes = <<>>
    /\ error_count = 0
    /\ total_requests = 0
    /\ halt_raised = FALSE
    /\ latency_warning = FALSE

FnIdle == RoundIdle /\ SizedIdle /\ ExitIdle /\ EvalIdle /\ ScanIdle /\ SchedIdle /\ SafetyIdle

PureIdle ==
    /\ FnIdle
    /\ issued = <<>>
    /\ given = <<>>
    /\ signals = <<>>
    /\ best_signal = NotSelected
    /\ sizing = <<>>
    /\ trade_plan = <<>>

-----------------------------------------------------------------------------
(* Notifications                                                           *)

\* How the HTTP post of notify can end: delivered, an error status
\* (raise_for_status), or no answer within the 10 s timeout.
PostOutcomes == {"ok", "HTTPStatusError", "TimeoutException"}

\* How the commit of the NotificationEvent row can end.
LogOutcomes == {"ok", "error"}

\* The name store of the notifications module: it is bound when the module
\* is imported, which main.py does before MomentumBot.__init__ calls
\* init_store, so it is None in a process started from main.py.
NotifierStore == "None"

\* TelegramNotifier.notify: whether an exception left it, the status of the
\* delivery, and the status on the NotificationEvent row it wrote ("none"
\* without a row).  Without a token or chat id nothing is sent or written.
\* (variant: a failed delivery is raised to the caller)
notify_reraise(configured, post, store, log) ==
    IF ~configured THEN [raised |-> FALSE, status |-> "NOT_SENT", row |-> "none"]
    ELSE LET status == IF post = "ok" THEN "SENT" ELSE "FAILED"
         IN  [raised |-> post # "ok",
              status |-> status,
              row |-> IF store # "None" /\ log = "ok" /\ post = "ok" THEN status ELSE "none"]

notify(configured, post, store, log) ==
    IF ~configured THEN [raised |-> FALSE, status |-> "NOT_SENT", row |-> "none"]
    ELSE LET status == IF post = "ok" THEN "SENT" ELSE "FAILED"
         IN  [raised |-> FALSE,
              status |-> status,
              row |-> IF store # "None" /\ log = "ok" THEN status ELSE "none"]

\* What a notify call of the bot can come to: with or without the Telegram
\* configuration, and with every outcome of the post and of the commit.
Notified ==
    {notify(configured, post, NotifierStore, log) :
        configured \in BOOLEAN, post \in PostOutcomes, log \in LogOutcomes}

\* How on_15m_close ends after send_trade_open: an exception of the call
\* would be caught by the generic handler of the cycle.
trade_opened(raised) == IF raised THEN "error" ELSE "opened"

\* How on_15m_close ends after send_halt, which is called in the handler of
\* SafetyHaltException: an exception of the call would leave on_15m_close.
halt_handled(raised) == IF raised THEN "escaped" ELSE "safety_halt"

-----------------------------------------------------------------------------
\* The trade lifecycle before its first cycle.
LifecycleIdle ==
    /\ pc = "idle"
    /\ plans = <<>>
    /\ positions = <<>>
    /\ exPos = {}
    /\ exOrders = {}
    /\ calls = <<>>
    /\ cur = 0
    /\ slRes = "none"
    /\ tpRes = "none"
    /\ outcome = "NONE"
    /\ cycleResult = "none"
    /\ haltedAtStart = FALSE
    /\ \E apiOk \in BOOLEAN : recon = ReconRecord(apiOk, exPos, positions)
    /\ notifs = {}
    /\ notify_status = {}
    /\ acct = "none"

\* The trade lifecycle of a process started on the tables and the exchange
\* account an earlier run left with a protected trade: the plan FILLED, its
\* Position OPEN, the exchange position and both protective orders live.
LifecycleResumed ==
    /\ pc = "idle"
    /\ \E sym \in Symbols :
          /\ plans = <<[symbol |-> sym, status |-> "FILLED"]>>
          /\ positions = <<[plan |-> 1, symbol |-> sym, status |-> "OPEN"]>>
          /\ exPos = {sym}
          /\ exOrders = {[symbol |-> sym, role |-> "STOP"], [symbol |-> sym, role |-> "TP"]}
    /\ calls = <<>>
    /\ cur = 0
    /\ slRes = "none"
    /\ tpRes = "none"
    /\ outcome = "NONE"
    /\ cycleResult = "none"
    /\ haltedAtStart = FALSE
    /\ \E apiOk \in BOOLEAN : recon = ReconRecord(apiOk, exPos, positions)
    /\ notifs = {}
    /\ notify_status = {}
    /\ acct = "none"

Init ==
    /\ haltRow \in {"none", "false", "true"}
    /\ LifecycleIdle \/ LifecycleResumed
    /\ PureIdle

\* How a block "async with self.store.session()" ends: its statements and
\* the commit at its exit all went through; the commit written in the block
\* raised, and the rollback leaves the tables as they were; or that commit
\* went through and a later statement of the block (the refresh of the
\* plan, the commit of DataStore.session at the exit) raised, with the rows
\* already written.
SessionOutcomes == {"ok", "commit_raised", "raised_after_commit"}

\* Whether the rows of the block are in the tables.
session_committed(db) == db # "commit_raised"

\* Whether the block was left by an exception.
session_raised(db) == db # "ok"

\* What every cycle resets when it starts.
CycleBegins ==
    /\ pc = "idle"
    /\ haltedAtStart' = (haltRow = "true")
    /\ slRes' = "none"
    /\ tpRes' = "none"
    /\ outcome' = "NONE"

\* on_15m_close, step 1: the system is halted, the cycle is skipped.
CycleSkipHalted ==
    /\ CycleBegins
    /\ is_system_halted(haltRow)
    /\ cycleResult' = "skipped_halted"
    /\ calls' = <<>>
    /\ cur' = 0
    /\ notifs' = {}
    /\ notify_status' = {}
    /\ UNCHANGED <<pc, haltRow, plans, positions, exPos, exOrders, recon>>
    /\ acct' = "none"
    /\ UNCHANGED pureVars

\* on_15m_close, step 2: a non-terminal position exists, the cycle manages
\* it and returns.  manage_existing_position ends without a submission:
\* should_exit is handed the snapshot's timestamp as the price, and the
\* exit branch names SIDE_SELL / SIDE_BUY, which main.py does not import,
\* before it reaches close_position_market; the exception is caught by the
\* generic handler of on_15m_close.
CycleManage ==
    /\ CycleBegins
    /\ ~is_system_halted(haltRow)
    /\ get_open_position(positions) # 0
    /\ \E r \in {"managed_hold", "managed_error"} : cycleResult' = r
    /\ calls' = <<>>
    /\ cur' = 0
    /\ notifs' = {}
    /\ notify_status' = {}
    /\ UNCHANGED <<pc, haltRow, plans, positions, exPos, exOrders, recon>>
    /\ acct' = "none"
    /\ UNCHANGED pureVars

\* on_15m_close, steps 2-4 without a trade: no local position, the
\* reconciler returns none, and no signal is selected (or fetching data
\* raised).
CycleNoSignal ==
    /\ CycleBegins
    /\ ~is_system_halted(haltRow)
    /\ get_open_position(positions) = 0
    /\ \E apiOk \in BOOLEAN :
          /\ recon' = ReconRecord(apiOk, exPos, positions)
          /\ reconcile_state(apiOk, exPos, positions).ret = 0
    /\ \E r \in {"no_signal", "error"} : cycleResult' = r
    /\ calls' = <<>>
    /\ cur' = 0
    /\ notifs' = {}
    /\ notify_status' = {}
    /\ UNCHANGED <<pc, haltRow, plans, positions, exPos, exOrders>>
    /\ acct' = "none"
    /\ UNCHANGED pureVars

\* on_15m_close, step 6: the pre-trade check raises SafetyHaltException
\* (leverage other than 1x, or margin not isolated); the handler sends the
\* halt notification.
CycleSafetyHalt ==
    /\ CycleBegins
    /\ ~is_system_halted(haltRow)
    /\ get_open_position(positions) = 0
    /\ \E apiOk \in BOOLEAN :
          /\ recon' = ReconRecord(apiOk, exPos, positions)
          /\ reconcile_state(apiOk, exPos, positions).ret = 0
    /\ \E best \in Symbols, a \in AccountStates :
          /\ validate_account_state(a)
          /\ acct' = a
          /\ notifs' = {"HALT"}
    /\ \E sent \in Notified :
          /\ notify_status' = {[type |-> "HALT", status |-> sent.status, row |-> sent.row]}
          /\ cycleResult' = halt_handled(sent.raised)
    /\ calls' = <<>>
    /\ cur' = 0
    /\ UNCHANGED <<pc, haltRow, plans, positions, exPos, exOrders>>
    /\ UNCHANGED pureVars

\* on_15m_close, steps 3-6: a signal is selected, the pre-trade check does
\* not raise, and the plan is persisted as PLANNED before execute_trade.
\* When the block of the plan raises the cycle ends in the generic handler,
\* with nothing persisted if it was the commit that raised and with the plan
\* PLANNED if it was the refresh or the commit at the exit of the block;
\* execute_trade is not called.
CyclePlan ==
    /\ CycleBegins
    /\ ~is_system_halted(haltRow)
    /\ get_open_position(positions) = 0
    /\ Len(plans) < MaxPlans
    /\ \E apiOk \in BOOLEAN :
          /\ recon' = ReconRecord(apiOk, exPos, positions)
          /\ reconcile_state(apiOk, exPos, positions).ret = 0
    /\ \E best \in Symbols, a \in AccountStates, db \in SessionOutcomes :
          /\ ~validate_account_state(a)
          /\ acct' = a
          /\ IF session_committed(db)
             THEN /\ plans' = Append(plans, [symbol |-> best, status |-> "PLANNED"])
                  /\ cur' = Len(plans) + 1
             ELSE /\ plans' = plans
                  /\ cur' = 0
          /\ IF session_raised(db)
             THEN pc' = "idle" /\ cycleResult' = "error"
             ELSE pc' = "preflight" /\ cycleResult' = cycleResult
    /\ calls' = <<>>
    /\ notifs' = {}
    /\ notify_status' = {}
    /\ UNCHANGED <<haltRow, positions, exPos, exOrders>>
    /\ UNCHANGED pureVars

\* execute_trade, step 1: client_preflight, the leverage call.
PreflightLeverage ==
    /\ pc = "preflight"
    /\ \E lev \in {"ok", "fail"} :
          /\ calls' = Append(calls, futures_change_leverage(plans[cur].symbol, cur, lev))
          /\ pc' = after_leverage(lev)
          /\ outcome' = IF after_leverage(lev) = "mark_failed" THEN "ABORTED" ELSE outcome
    /\ UNCHANGED <<haltRow, plans, positions, exPos, exOrders, cur, slRes, tpRes,
                   cycleResult, haltedAtStart, recon, notifs,
                   notify_status>>
    /\ UNCHANGED acct
    /\ UNCHANGED pureVars

\* execute_trade, step 1: client_preflight, the margin call.
PreflightMargin ==
    /\ pc = "margin"
    /\ \E mar \in {"ok", "benign", "fail"} :
          /\ calls' = Append(calls, futures_change_margin_type(plans[cur].symbol, cur, mar))
          /\ pc' = after_preflight("ok", mar)
          /\ outcome' = IF after_preflight("ok", mar) = "mark_failed"
                        THEN "ABORTED" ELSE outcome
    /\ UNCHANGED <<haltRow, plans, positions, exPos, exOrders, cur, slRes, tpRes,
                   cycleResult, haltedAtStart, recon, notifs,
                   notify_status>>
    /\ UNCHANGED acct
    /\ UNCHANGED pureVars

\* execute_trade, step 2: the ENTRY market order.
SubmitEntry ==
    /\ pc = "entry"
    /\ \E res \in {"ok", "fail"} :
          /\ calls' = Append(calls, place_market_entry(plans[cur].symbol, cur, res,
                                  generate_client_order_id(PlanId(cur), ROLE_ENTRY, DefaultAttempt)))
          /\ exPos' = IF res = "ok" THEN exPos \cup {plans[cur].symbol} ELSE exPos
          /\ pc' = after_entry(res)
          /\ outcome' = IF after_entry(res) = "mark_failed" THEN "ABORTED" ELSE outcome
          /\ slRes' = IF after_entry(res) = "protect" THEN "pending" ELSE slRes
          /\ tpRes' = IF after_entry(res) = "protect" THEN "pending" ELSE tpRes
    /\ UNCHANGED <<haltRow, plans, positions, exOrders, cur,
                   cycleResult, haltedAtStart, recon, notifs,
                   notify_status>>
    /\ UNCHANGED acct
    /\ UNCHANGED pureVars

\* execute_trade, step 4: the STOP submission of the gathered pair.
SubmitStop ==
    /\ pc = "protect"
    /\ slRes = "pending"
    /\ \E res \in {"ok", "fail"} :
          /\ calls' = Append(calls, place_stop_loss(plans[cur].symbol, cur, res,
                                  generate_client_order_id(PlanId(cur), ROLE_STOP, DefaultAttempt)))
          /\ exOrders' = IF res = "ok"
                         THEN exOrders \cup {[symbol |-> plans[cur].symbol, role |-> "STOP"]}
                         ELSE exOrders
          /\ slRes' = res
    /\ UNCHANGED <<pc, haltRow, plans, positions, exPos, cur, tpRes, outcome,
                   cycleResult, haltedAtStart, recon, notifs,
                   notify_status>>
    /\ UNCHANGED acct
    /\ UNCHANGED pureVars

\* execute_trade, step 4: the TP submission of the gathered pair.
SubmitTP ==
    /\ pc = "protect"
    /\ tpRes = "pending"
    /\ \E res \in {"ok", "fail"} :
          /\ calls' = Append(calls, place_take_profit(plans[cur].symbol, cur, res,
                                  generate_client_order_id(PlanId(cur), ROLE_TP, DefaultAttempt)))
          /\ exOrders' = IF res = "ok"
                         THEN exOrders \cup {[symbol |-> plans[cur].symbol, role |-> "TP"]}
                         ELSE exOrders
          /\ tpRes' = res
    /\ UNCHANGED <<pc, haltRow, plans, positions, exPos, cur, slRes, outcome,
                   cycleResult, haltedAtStart, recon, notifs,
                   notify_status>>
    /\ UNCHANGED acct
    /\ UNCHANGED pureVars

\* execute_trade: gather has returned both results; return True, or enter
\* handle_protection_failure.
JoinProtect ==
    /\ pc = "protect"
    /\ gather(slRes, tpRes)
    /\ IF results_ok(slRes, tpRes)
       THEN pc' = "mark_filled" /\ outcome' = "PROTECTED"
       ELSE pc' = "emergency_close" /\ outcome' = outcome
    /\ UNCHANGED <<haltRow, plans, positions, exPos, exOrders, calls, cur, slRes, tpRes,
                   cycleResult, haltedAtStart, recon, notifs,
                   notify_status>>
    /\ UNCHANGED acct
    /\ UNCHANGED pureVars

\* handle_protection_failure, step 1: the emergency close.
EmergencyClose ==
    /\ pc = "emergency_close"
    /\ \E res \in {"ok", "fail"} :
          /\ calls' = Append(calls, close_position_market(plans[cur].symbol, cur, res,
                                  generate_client_order_id(PlanId(cur), ROLE_CLOSE_EMERGENCY,
                                                           DefaultAttempt)))
          /\ exPos' = IF res = "ok" THEN exPos \ {plans[cur].symbol} ELSE exPos
          /\ pc' = after_close(res)
    /\ UNCHANGED <<haltRow, plans, positions, exOrders, cur, slRes, tpRes, outcome,
                   cycleResult, haltedAtStart, recon, notifs,
                   notify_status>>
    /\ UNCHANGED acct
    /\ UNCHANGED pureVars

\* handle_protection_failure, step 2: cancel the remaining orders; a
\* failure is ignored.
CancelAll ==
    /\ pc = "cancel_all"
    /\ \E res \in {"ok", "fail"} :
          /\ calls' = Append(calls, cancel_all_orders(plans[cur].symbol, cur, res))
          /\ exOrders' = IF res = "ok"
                         THEN {o \in exOrders : o.symbol # plans[cur].symbol}
                         ELSE exOrders
    /\ pc' = "raise_halt"
    /\ UNCHANGED <<haltRow, plans, positions, exPos, cur, slRes, tpRes, outcome,
                   cycleResult, haltedAtStart, recon, notifs,
                   notify_status>>
    /\ UNCHANGED acct
    /\ UNCHANGED pureVars

\* handle_protection_failure, step 3: raise "SYSTEM HALTED".  The exception
\* leaves execute_trade and is caught by the generic handler of
\* on_15m_close, which logs it.
RaiseHalt ==
    /\ pc = "raise_halt"
    /\ outcome' = "HALTED"
    /\ cycleResult' = "protection_halt"
    /\ pc' = "idle"
    /\ UNCHANGED <<haltRow, plans, positions, exPos, exOrders, calls, cur, slRes, tpRes,
                   haltedAtStart, recon, notifs,
                   notify_status>>
    /\ UNCHANGED acct
    /\ UNCHANGED pureVars

\* on_15m_close after execute_trade returned True: the Position is created
\* OPEN and the plan set to FILLED in one commit.  When the block raises
\* the cycle ends in the generic handler without the notification: with
\* neither written if it was that commit, with both if it was the commit at
\* the exit of the block.
MarkFilled ==
    /\ pc = "mark_filled"
    /\ \E db \in SessionOutcomes :
          /\ IF session_committed(db)
             THEN /\ positions' = Append(positions,
                         [plan |-> cur, symbol |-> plans[cur].symbol, status |-> "OPEN"])
                  /\ plans' = [plans EXCEPT ![cur].status = "FILLED"]
             ELSE /\ positions' = positions
                  /\ plans' = plans
          /\ IF session_raised(db)
             THEN pc' = "idle" /\ cycleResult' = "error"
             ELSE pc' = "notify_open" /\ cycleResult' = cycleResult
    /\ UNCHANGED <<haltRow, exPos, exOrders, calls, cur, slRes, tpRes, outcome,
                   haltedAtStart, recon, notifs, notify_status>>
    /\ UNCHANGED acct
    /\ UNCHANGED pureVars

\* on_15m_close after the commit of the Position: send_trade_open, and the
\* cycle returns.
NotifyOpen ==
    /\ pc = "notify_open"
    /\ notifs' = notifs \cup {"TRADE_OPEN"}
    /\ \E sent \in Notified :
          /\ notify_status' = notify_status \cup
                 {[type |-> "TRADE_OPEN", status |-> sent.status, row |-> sent.row]}
          /\ cycleResult' = trade_opened(sent.raised)
    /\ pc' = "idle"
    /\ UNCHANGED <<haltRow, plans, positions, exPos, exOrders, calls, cur, slRes, tpRes,
                   outcome, haltedAtStart, recon>>
    /\ UNCHANGED acct
    /\ UNCHANGED pureVars

\* on_15m_close after execute_trade returned False: the plan is FAILED.
\* When the block raises the cycle ends in the generic handler, with the
\* plan as it was if it was that commit and FAILED if it was the commit at
\* the exit of the block.
MarkFailed ==
    /\ pc = "mark_failed"
    /\ \E db \in SessionOutcomes :
          /\ plans' = IF session_committed(db)
                       THEN [plans EXCEPT ![cur].status = "FAILED"] ELSE plans
          /\ cycleResult' = IF session_raised(db) THEN "error" ELSE "failed"
    /\ pc' = "idle"
    /\ UNCHANGED <<haltRow, positions, exPos, exOrders, calls, cur, slRes, tpRes, outcome,
                   haltedAtStart, recon, notifs,
                   notify_status>>
    /\ UNCHANGED acct
    /\ UNCHANGED pureVars

\* The process is restarted (a crash, or the restart command exiting the
\* process): what is in memory is lost, the database and the exchange
\* keep their state, and initialize runs reconcile_state.
Restart ==
    /\ \E apiOk \in BOOLEAN : recon' = ReconRecord(apiOk, exPos, positions)
    /\ pc' = "idle"
    /\ cur' = 0
    /\ slRes' = "none"
    /\ tpRes' = "none"
    /\ outcome' = "NONE"
    /\ cycleResult' = "restarted"
    /\ haltedAtStart' = FALSE
    /\ notifs' = {}
    /\ notify_status' = {}
    /\ UNCHANGED <<haltRow, plans, positions, exPos, exOrders, calls>>
    /\ acct' = "none"
    /\ UNCHANGED pureVars

Next ==
    \/ CycleSkipHalted
    \/ CycleManage
    \/ CycleNoSignal
    \/ CycleSafetyHalt
    \/ CyclePlan
    \/ PreflightLeverage
    \/ PreflightMargin
    \/ SubmitEntry
    \/ SubmitStop
    \/ SubmitTP
    \/ JoinProtect
    \/ EmergencyClose
    \/ CancelAll
    \/ RaiseHalt
    \/ MarkFilled
    \/ NotifyOpen
    \/ MarkFailed
    \/ Restart

Spec == Init /\ [][Next]_vars

-----------------------------------------------------------------------------
(* Client order ids: generate_client_order_id evaluated on its own         *)

\* How many times execute_trade is run for one plan id.
MaxRuns == 2

\* The roles execute_trade and handle_protection_failure ask ids for.
CallerRoles == {ROLE_ENTRY, ROLE_STOP, ROLE_TP, ROLE_CLOSE_EMERGENCY}

InitIds ==
    /\ haltRow = "none"
    /\ LifecycleIdle
    /\ PureIdle

\* One call of generate_client_order_id by run number `run` of the
\* execution of plan `plan`; no caller passes an attempt.  The two newest
\* ids are kept.
GenerateId ==
    /\ \E plan \in 1..MaxPlans, role \in CallerRoles, run \in 1..MaxRuns :
          issued' = <<[plan |-> plan, role |-> role, run |-> run,
                       cid |-> generate_client_order_id(PlanId(plan), role, DefaultAttempt)]>>
                    \o SubSeq(issued, 1, IF Len(issued) = 0 THEN 0 ELSE 1)
    /\ UNCHANGED coreVars
    /\ UNCHANGED <<given, signals, best_signal, sizing, trade_plan, fnVars>>

NextIds == GenerateId

SpecIds == InitIds /\ [][NextIds]_vars

-----------------------------------------------------------------------------
(* Python floats: IEEE-754 binary64 arithmetic, round-half-to-even         *)

\* Natural numbers of any size are sequences of limbs, lowest first, with
\* no zero limb at the top; zero is the empty sequence.
LimbBits == 15
LimbBase == 2^LimbBits

\* The significand of a binary64 has 53 bits.
MantissaBits == 53

Rest(a) == IF a = <<>> THEN <<>> ELSE Tail(a)

RECURSIVE BTrim(_)
BTrim(a) ==
    IF a = <<>> THEN <<>>
    ELSE IF a[Len(a)] = 0 THEN BTrim(SubSeq(a, 1, Len(a) - 1)) ELSE a

RECURSIVE BFromNat(_)
BFromNat(n) == IF n = 0 THEN <<>> ELSE <<n % LimbBase>> \o BFromNat(n \div LimbBase)

RECURSIVE BAddC(_, _, _)
BAddC(a, b, c) ==
    IF a = <<>> /\ b = <<>>
    THEN IF c = 0 THEN <<>> ELSE <<c>>
    ELSE LET t == (IF a = <<>> THEN 0 ELSE a[1]) + (IF b = <<>> THEN 0 ELSE b[1]) + c
         IN  <<t % LimbBase>> \o BAddC(Rest(a), Rest(b), t \div LimbBase)

BAdd(a, b) == BAddC(a, b, 0)

\* a - b for a >= b
RECURSIVE BSubB(_, _, _)
BSubB(a, b, borrow) ==
    IF a = <<>> THEN <<>>
    ELSE LET t == a[1] - (IF b = <<>> THEN 0 ELSE b[1]) - borrow
         IN  IF t >= 0
             THEN <<t>> \o BSubB(Tail(a), Rest(b), 0)
             ELSE <<t + LimbBase>> \o BSubB(Tail(a), Rest(b), 1)

BSub(a, b) == BTrim(BSubB(a, b, 0))

RECURSIVE BCmpFrom(_, _, _)
BCmpFrom(a, b, i) ==
    IF i = 0 THEN 0
    ELSE IF a[i] < b[i] THEN -1
    ELSE IF a[i] > b[i] THEN 1
    ELSE BCmpFrom(a, b, i - 1)

\* -1, 0 or 1 as a is below, equal to or above b
BCmp(a, b) ==
    IF Len(a) < Len(b) THEN -1
    ELSE IF Len(a) > Len(b) THEN 1
    ELSE BCmpFrom(a, b, Len(a))

RECURSIVE BMulSmallC(_, _, _)
BMulSmallC(a, k, c) ==
    IF a = <<>>
    THEN IF c = 0 THEN <<>> ELSE <<c>>
    ELSE LET t == a[1] * k + c
         IN  <<t % LimbBase>> \o BMulSmallC(Tail(a), k, t \div LimbBase)

\* a * k for a limb k
BMulSmall(a, k) == IF k = 0 THEN <<>> ELSE BMulSmallC(a, k, 0)

RECURSIVE BMul(_, _)
BMul(a, b) ==
    IF a = <<>> \/ b = <<>> THEN <<>>
    ELSE LET high == BMul(a, Tail(b))
         IN  BAdd(BMulSmall(a, b[1]), IF high = <<>> THEN <<>> ELSE <<0>> \o high)

\* quotient and remainder of a by a limb d
RECURSIVE BDivSmall(_, _)
BDivSmall(a, d) ==
    IF a = <<>> THEN [q |-> <<>>, r |-> 0]
    ELSE LET high == BDivSmall(Tail(a), d)
             t == high.r * LimbBase + a[1]
         IN  [q |-> <<t \div d>> \o high.q, r |-> t % d]

\* a * 2^k
BShl(a, k) ==
    IF a = <<>> THEN <<>>
    ELSE [i \in 1..(k \div LimbBits) |-> 0] \o BMulSmall(a, 2^(k % LimbBits))

\* a \div 2^k
BShr(a, k) ==
    IF k \div LimbBits >= Len(a) THEN <<>>
    ELSE BTrim(BDivSmall(SubSeq(a, (k \div LimbBits) + 1, Len(a)), 2^(k % LimbBits)).q)

\* the number of bits of a
BitLen(a) ==
    IF a = <<>> THEN 0
    ELSE LimbBits * (Len(a) - 1)
           + (CHOOSE k \in 1..LimbBits : 2^(k - 1) <= a[Len(a)] /\ a[Len(a)] < 2^k)

\* bit i of a, the lowest being bit 1
BitAt(a, i) == (a[((i - 1) \div LimbBits) + 1] \div 2^((i - 1) % LimbBits)) % 2

\* Long division, one bit of a at a time: the n bits of a from bit i down
\* are brought into st, the quotient and the remainder of the bits above.
RECURSIVE BDivBits(_, _, _, _, _)
BDivBits(a, b, i, n, st) ==
    IF n = 0 THEN st
    ELSE LET r2 == BAdd(BMulSmall(st.r, 2), IF BitAt(a, i) = 1 THEN <<1>> ELSE <<>>)
         IN  IF BCmp(r2, b) >= 0
             THEN BDivBits(a, b, i - 1, n - 1, [q |-> BAdd(BMulSmall(st.q, 2), <<1>>),
                                                r |-> BSub(r2, b)])
             ELSE BDivBits(a, b, i - 1, n - 1, [q |-> BMulSmall(st.q, 2), r |-> r2])

\* The limbs of a from limb j down, one limb at a time (the test of st has
\* it computed before the next limb is taken).
RECURSIVE BDivLimbs(_, _, _, _)
BDivLimbs(a, b, j, st) ==
    IF j = 0 \/ st.q # st.q THEN st
    ELSE BDivLimbs(a, b, j - 1, BDivBits(a, b, j * LimbBits, LimbBits, st))

\* quotient and remainder of a by b > 0
BDivMod(a, b) == BDivLimbs(a, b, Len(a), [q |-> <<>>, r |-> <<>>])

\* the number of zero bits at the low end of a > 0
RECURSIVE TrailingZeros(_)
TrailingZeros(a) ==
    IF a[1] = 0 THEN LimbBits + TrailingZeros(Tail(a))
    ELSE CHOOSE k \in 0..(LimbBits - 1) : a[1] % 2^k = 0 /\ a[1] % 2^(k + 1) # 0

\* A number s * m * 2^e with sign s, in the one form every value has: m is
\* odd, and zero is m = 0, e = 0, s = 1.
Dyadic(s, m, e) ==
    IF m = <<>> THEN [s |-> 1, m |-> <<>>, e |-> 0]
    ELSE [s |-> s, m |-> BShr(m, TrailingZeros(m)), e |-> e + TrailingZeros(m)]

\* The binary64 nearest to s * m * 2^e, ties to the even significand.
\* (The exponent range is not modelled: no overflow, no subnormals.)
RoundToFloat(s, m, e) ==
    IF BitLen(m) <= MantissaBits THEN Dyadic(s, m, e)
    ELSE LET drop == BitLen(m) - MantissaBits
             kept == BShr(m, drop)
             lost == BSub(m, BShl(kept, drop))
             half == BCmp(lost, BShl(<<1>>, drop - 1))
             up == half = 1 \/ (half = 0 /\ kept[1] % 2 = 1)
         IN  Dyadic(s, IF up THEN BAdd(kept, <<1>>) ELSE kept, e + drop)

\* The exact sum of two numbers.
ExactAdd(x, y) ==
    LET e == IF x.e < y.e THEN x.e ELSE y.e
        a == BShl(x.m, x.e - e)
        b == BShl(y.m, y.e - e)
    IN  IF x.s = y.s THEN Dyadic(x.s, BAdd(a, b), e)
        ELSE IF BCmp(a, b) >= 0 THEN Dyadic(x.s, BSub(a, b), e)
        ELSE Dyadic(y.s, BSub(b, a), e)

Neg(x) == IF x.m = <<>> THEN x ELSE [x EXCEPT !.s = -x.s]

ExactSub(x, y) == ExactAdd(x, Neg(y))

Abs(x) == [x EXCEPT !.s = 1]

\* |x| against |y|: -1, 0 or 1
CmpAbs(x, y) ==
    LET e == IF x.e < y.e THEN x.e ELSE y.e
    IN  BCmp(BShl(x.m, x.e - e), BShl(y.m, y.e - e))

\* x < y, x <= y
Less(x, y) ==
    IF x.s # y.s THEN x.s < y.s
    ELSE IF x.s = 1 THEN CmpAbs(x, y) = -1
    ELSE CmpAbs(x, y) = 1

LessEq(x, y) == ~Less(y, x)

\* float + float, float - float, float * float, float / float
FAdd(x, y) == LET z == ExactAdd(x, y) IN RoundToFloat(z.s, z.m, z.e)

FSub(x, y) == FAdd(x, Neg(y))

FMul(x, y) == RoundToFloat(x.s * y.s, BMul(x.m, y.m), x.e + y.e)

FDiv(x, y) ==
    LET need == MantissaBits + 2 + BitLen(y.m) - BitLen(x.m)
        k == IF need > 0 THEN need ELSE 0
        d == BDivMod(BShl(x.m, k), y.m)
        sticky == IF d.r = <<>> THEN <<>> ELSE <<1>>
    IN  RoundToFloat(x.s * y.s, BAdd(BMulSmall(d.q, 2), sticky), x.e - y.e - k - 1)

\* float(n) of a natural number n
FromNat(n) == RoundToFloat(1, BFromNat(n), 0)

\* The float a decimal literal n/d denotes (d a power of ten).
FromDecimal(n, d) == FDiv(FromNat(n), FromNat(d))

-----------------------------------------------------------------------------
(* Selector: select_best_signal evaluated on its own                       *)

\* The lengths of the candidate lists handed to the Selector.
ListLengths == 0..3

\* The largest score and the largest liquidity rank of a candidate.
MaxScore == 1
MaxRank == 2

\* The watchlist in the order Python compares the symbol strings.
Alphabetical ==
    <<"ADAUSDT", "AVAXUSDT", "BNBUSDT", "BTCUSDT", "DOGEUSDT", "ETHUSDT", "SOLUSDT", "XRPUSDT">>

\* The position of a symbol in that order stands for the string as a sort key.
SymbolKey(sym) == CHOOSE i \in DOMAIN Alphabetical : Alphabetical[i] = sym

\* The symbols the candidates are drawn from.
CandidateSymbols == {Alphabetical[i] : i \in ListLengths \ {0}}

\* The key functions of the four sorts.
SortKey(x, field) ==
    CASE field = "symbol" -> SymbolKey(x.symbol)
      [] field = "liquidity_rank" -> x.liquidity_rank
      [] field = "vol_expansion_score" -> x.vol_expansion_score
      [] field = "trend_strength_score" -> x.trend_strength_score

\* a < b for two keys of the same sort: the scores are floats, the symbol
\* positions and the ranks are integers.
KeyLess(a, b, field) ==
    IF field \in {"vol_expansion_score", "trend_strength_score"} THEN Less(a, b) ELSE a < b

\* x sorts strictly before y.
SortsBefore(x, y, field, reverse) ==
    IF reverse
    THEN KeyLess(SortKey(y, field), SortKey(x, field), field)
    ELSE KeyLess(SortKey(x, field), SortKey(y, field), field)

\* x put into the sorted list t behind every element it does not sort
\* strictly before.
InsertStable(t, x, field, reverse) ==
    LET before == {i \in DOMAIN t : SortsBefore(x, t[i], field, reverse)}
        at == IF before = {} THEN Len(t) + 1
              ELSE CHOOSE i \in before : \A j \in before : i <= j
    IN  SubSeq(t, 1, at - 1) \o <<x>> \o SubSeq(t, at, Len(t))

\* A stable sort: elements with equal keys keep their order, also with
\* reverse=True.
RECURSIVE StableSort(_, _, _)
StableSort(s, field, reverse) ==
    IF s = <<>> THEN <<>>
    ELSE InsertStable(StableSort(SubSeq(s, 1, Len(s) - 1), field, reverse),
                      s[Len(s)], field, reverse)

\* list.sort(key=..., reverse=...)
\* (variant: the fallback sort on the symbol is left out)
sort_without_symbol(s, field, reverse) ==
    IF field = "symbol" THEN s ELSE StableSort(s, field, reverse)

\* (variant: reverse is ignored, every sort is ascending)
sort_ascending_only(s, field, reverse) == StableSort(s, field, FALSE)

sort(s, field, reverse) == StableSort(s, field, reverse)

\* The list after the four sorts, lowest priority first.
sorted_by_hierarchy(s) ==
    sort(sort(sort(sort(s, "symbol", FALSE),
                   "liquidity_rank", FALSE),
              "vol_expansion_score", TRUE),
         "trend_strength_score", TRUE)

\* Selector.select_best_signal: the list as it leaves it, and the result.
\* (variant: a single candidate is not selected)
select_best_signal_needs_two(s) ==
    IF Len(s) <= 1
    THEN [signals |-> s, ret |-> <<>>]
    ELSE LET sorted == sorted_by_hierarchy(s)
         IN  [signals |-> sorted, ret |-> <<sorted[1]>>]

select_best_signal(s) ==
    IF s = <<>>
    THEN [signals |-> s, ret |-> <<>>]
    ELSE LET sorted == sorted_by_hierarchy(s)
         IN  [signals |-> sorted, ret |-> <<sorted[1]>>]

\* A candidate per position: symbols pairwise different, the scores and
\* the rank from their ranges.
InitSelect ==
    /\ haltRow = "none"
    /\ LifecycleIdle
    /\ FnIdle
    /\ issued = <<>>
    /\ sizing = <<>>
    /\ trade_plan = <<>>
    /\ best_signal = NotSelected
    /\ \E n \in ListLengths :
          \E syms \in [1..n -> CandidateSymbols] :
              /\ \A i, j \in 1..n : syms[i] = syms[j] => i = j
              /\ \E trend \in [1..n -> 0..MaxScore], vol \in [1..n -> 0..MaxScore],
                    rank \in [1..n -> 1..MaxRank] :
                    given = [i \in 1..n |->
                                [symbol |-> syms[i],
                                 liquidity_rank |-> rank[i],
                                 vol_expansion_score |-> FromNat(vol[i]),
                                 trend_strength_score |-> FromNat(trend[i])]]
    /\ signals = given

\* on_15m_close hands the eligible signals to the Selector.
Select ==
    /\ ~best_signal.called
    /\ signals' = select_best_signal(signals).signals
    /\ best_signal' = [called |-> TRUE, ret |-> select_best_signal(signals).ret]
    /\ UNCHANGED coreVars
    /\ UNCHANGED <<issued, given, sizing, trade_plan, fnVars>>

NextSelect == Select

SpecSelect == InitSelect /\ [][NextSelect]_vars

-----------------------------------------------------------------------------
(* Risk Sizer: calculate_trade_plan evaluated on its own                   *)

\* RiskEngine.RISK_PERCENT = 0.005 and RiskEngine.TP_R_MULTIPLIER = 2.0
RISK_PERCENT == FromDecimal(5, 1000)
TP_R_MULTIPLIER == FromNat(2)

target_risk_amount(total_equity) == FMul(total_equity, RISK_PERCENT)

ideal_qty(total_equity, r_value) == FDiv(target_risk_amount(total_equity), r_value)

ideal_margin_required(total_equity, r_value, price) ==
    FMul(ideal_qty(total_equity, r_value), price)

\* RiskEngine.calculate_trade_plan
calculate_trade_plan(direction, price, atr_ltf, atr_stop_multiplier, total_equity, available_equity) ==
    LET r_value == FMul(atr_ltf, atr_stop_multiplier)
        ideal == ideal_margin_required(total_equity, r_value, price)
        capital_constrained == Less(available_equity, ideal)
        margin_to_use == IF capital_constrained THEN available_equity ELSE ideal
        final_qty == FDiv(margin_to_use, price)
    IN  [direction |-> direction,
         entry_price |-> price,
         stop_price |-> IF direction = "LONG" THEN FSub(price, r_value)
                        ELSE FAdd(price, r_value),
         tp_price |-> IF direction = "LONG"
                      THEN FAdd(price, FMul(r_value, TP_R_MULTIPLIER))
                      ELSE FSub(price, FMul(r_value, TP_R_MULTIPLIER)),
         qty |-> final_qty,
         r_value |-> r_value,
         risk_amount |-> FMul(final_qty, r_value),
         margin_required |-> margin_to_use,
         capital_constrained |-> capital_constrained]

\* The sizing inputs, as the decimal literals <<n, d>> for n/d.
Prices == {<<3000, 1>>, <<391, 1>>, <<1906083, 100>>, <<36, 10>>}
Volatilities == {<<30, 1>>, <<25, 1>>, <<10831, 100>>, <<25, 10>>}
StopMultipliers == {<<15, 10>>, <<2, 1>>, <<25, 10>>}
TotalEquities == {<<100000, 1>>, <<36000, 1>>, <<50000, 1>>}
AvailableEquities == {<<100000, 1>>, <<20000, 1>>, <<10000, 1>>, <<240, 1>>}

Literal(x) == FromDecimal(x[1], x[2])

InitRisk ==
    /\ haltRow = "none"
    /\ LifecycleIdle
    /\ FnIdle
    /\ issued = <<>>
    /\ given = <<>>
    /\ signals = <<>>
    /\ best_signal = NotSelected
    /\ trade_plan = <<>>
    /\ \E direction \in {"LONG", "SHORT"}, price \in Prices, atr_ltf \in Volatilities,
          atr_stop_multiplier \in StopMultipliers, total_equity \in TotalEquities,
          available_equity \in AvailableEquities :
          sizing = <<[direction |-> direction,
                      price |-> Literal(price),
                      atr_ltf |-> Literal(atr_ltf),
                      atr_stop_multiplier |-> Literal(atr_stop_multiplier),
                      total_equity |-> Literal(total_equity),
                      available_equity |-> Literal(available_equity),
                      literals |-> <<price, atr_ltf, atr_stop_multiplier,
                                     total_equity, available_equity>>]>>

\* on_15m_close sizes the selected signal.
SizePlan ==
    /\ sizing # <<>>
    /\ trade_plan = <<>>
    /\ trade_plan' = <<calculate_trade_plan(sizing[1].direction, sizing[1].price,
                                            sizing[1].atr_ltf, sizing[1].atr_stop_multiplier,
                                            sizing[1].total_equity, sizing[1].available_equity)>>
    /\ UNCHANGED coreVars
    /\ UNCHANGED <<issued, given, signals, best_signal, sizing, fnVars>>

NextRisk == SizePlan

SpecRisk == InitRisk /\ [][NextRisk]_vars

-----------------------------------------------------------------------------
(* Python decimals, and round_step evaluated on its own                    *)

\* The default context of the decimal module keeps 28 significant digits.
DecimalPrecision == 28

\* repr of a float has at most 17 significant digits.
ReprDigits == 17

Max(a, b) == IF a > b THEN a ELSE b

RECURSIVE Pow10(_)
Pow10(k) == IF k = 0 THEN <<1>> ELSE BMulSmall(Pow10(k - 1), 10)

\* the number of decimal digits of a
RECURSIVE DecLen(_)
DecLen(a) == IF a = <<>> THEN 0 ELSE 1 + DecLen(BTrim(BDivSmall(a, 10).q))

\* The integer nearest to a / b, ties to even, and the integer on the other
\* side of a / b.
DivNearest(a, b) ==
    LET d == BDivMod(a, b)
        half == BCmp(BMulSmall(d.r, 2), b)
        up == half = 1 \/ (half = 0 /\ d.q # <<>> /\ d.q[1] % 2 = 1)
    IN  [q |-> IF up THEN BAdd(d.q, <<1>>) ELSE d.q,
         other |-> IF up THEN d.q ELSE BAdd(d.q, <<1>>)]

\* A Decimal is s * c * 10^x.
\* float(d) of a Decimal: the binary64 nearest to it.
float(d) ==
    IF d.x >= 0 THEN RoundToFloat(d.s, BMul(d.c, Pow10(d.x)), 0)
    ELSE FDiv([s |-> d.s, m |-> d.c, e |-> 0], [s |-> 1, m |-> Pow10(-d.x), e |-> 0])

\* The decimals of n digits next to A / B (which has k digits before the
\* point), nearest first; the first that reads back as v, or the search goes
\* on with one digit more.
RECURSIVE ShortestRepr(_, _, _, _, _)
ShortestRepr(v, A, B, k, n) ==
    LET t == n - k
        d == DivNearest(BMul(A, Pow10(Max(t, 0))), BMul(B, Pow10(Max(-t, 0))))
        nearest == [s |-> v.s, c |-> d.q, x |-> -t]
        other == [s |-> v.s, c |-> d.other, x |-> -t]
    IN  IF float(nearest) = v THEN nearest
        ELSE IF float(other) = v THEN other
        ELSE IF n = ReprDigits THEN nearest
        ELSE ShortestRepr(v, A, B, k, n + 1)

\* Decimal(str(v)) of a float: the shortest decimal that reads back as v.
str(v) ==
    IF v.m = <<>> THEN [s |-> 1, c |-> <<>>, x |-> 0]
    ELSE LET A == BShl(v.m, Max(v.e, 0))
             B == BShl(<<1>>, Max(-v.e, 0))
             a == DecLen(A)
             b == DecLen(B)
             k == IF BCmp(BMul(A, Pow10(Max(b - a, 0))), BMul(B, Pow10(Max(a - b, 0)))) >= 0
                  THEN a - b + 1 ELSE a - b
         IN  ShortestRepr(v, A, B, k, 1)

\* The context's rounding of a coefficient to DecimalPrecision digits, ties
\* to even; inexact says that digits below c were already cut off.
DecimalRound(s, c, x, inexact) ==
    LET drop == DecLen(c) - DecimalPrecision
    IN  IF drop <= 0 THEN [s |-> s, c |-> c, x |-> x]
        ELSE LET d == BDivMod(c, Pow10(drop))
                 half == BCmp(BMulSmall(d.r, 2), Pow10(drop))
                 up == half = 1 \/ (half = 0 /\ (inexact \/ d.q[1] % 2 = 1))
             IN  [s |-> s, c |-> IF up THEN BAdd(d.q, <<1>>) ELSE d.q, x |-> x + drop]

\* Decimal / Decimal
DecimalDiv(a, b) ==
    LET shift == Max(0, DecimalPrecision + 1 + DecLen(b.c) - DecLen(a.c))
        d == BDivMod(BMul(a.c, Pow10(shift)), b.c)
    IN  DecimalRound(a.s * b.s, d.q, a.x - b.x - shift, d.r # <<>>)

\* int * Decimal
DecimalMul(k, d) == DecimalRound(k.s * d.s, BMul(k.n, d.c), d.x, FALSE)

\* math.floor(x) of a float, as the integer s * n
floor(x) ==
    IF x.e >= 0 THEN [s |-> x.s, n |-> BShl(x.m, x.e)]
    ELSE IF x.s = 1 THEN [s |-> 1, n |-> BShr(x.m, -x.e)]
    ELSE [s |-> -1, n |-> BAdd(BShr(x.m, -x.e), <<1>>)]

\* bot.utils.round_step
round_step(value, step_size) ==
    IF step_size.m = <<>> THEN value
    ELSE LET d_value == str(value)
             d_step == str(step_size)
             steps == DecimalDiv(d_value, d_step)
             rounded_ == DecimalMul(floor(float(steps)), d_step)
         IN  float(rounded_)

\* The natural number with the given decimal digits.
RECURSIVE FromDigits(_)
FromDigits(ds) ==
    IF ds = <<>> THEN <<>>
    ELSE BAdd(BMulSmall(FromDigits(SubSeq(ds, 1, Len(ds) - 1)), 10), BFromNat(ds[Len(ds)]))

\* The float a literal denotes: its digits, and how many of them follow the
\* point.
FloatLiteral(x) == float([s |-> 1, c |-> FromDigits(x[1]), x |-> -x[2]])

\* Quantities and prices handed to round_step: 1.9809999999999999,
\* 49.769999999999996, 13.549999999999999, 11.111111111111112, 2955.0, 0.3,
\* 2837.535, 3747.535, 7.2, 0.0005, 19060.83, 0.0
RoundValues ==
    {<<<<1,9,8,0,9,9,9,9,9,9,9,9,9,9,9,9,9>>, 16>>,
     <<<<4,9,7,6,9,9,9,9,9,9,9,9,9,9,9,9,6>>, 15>>,
     <<<<1,3,5,4,9,9,9,9,9,9,9,9,9,9,9,9,9>>, 15>>,
     <<<<1,1,1,1,1,1,1,1,1,1,1,1,1,1,1,1,2>>, 15>>,
     <<<<2,9,5,5>>, 0>>,
     <<<<3>>, 1>>,
     <<<<2,8,3,7,5,3,5>>, 3>>,
     <<<<3,7,4,7,5,3,5>>, 3>>,
     <<<<7,2>>, 1>>,
     <<<<5>>, 4>>,
     <<<<1,9,0,6,0,8,3>>, 2>>,
     <<<<>>, 0>>}

\* Step and tick sizes: 0.001 and 0.000001 (the defaults of
\* get_instrument_info), 0.01, 0.05, 1.0, and 0.0
StepSizes ==
    {<<<<1>>, 3>>, <<<<1>>, 6>>, <<<<1>>, 2>>, <<<<5>>, 2>>, <<<<1>>, 0>>, <<<<>>, 0>>}

InitRound ==
    /\ haltRow = "none"
    /\ LifecycleIdle
    /\ issued = <<>>
    /\ given = <<>>
    /\ signals = <<>>
    /\ best_signal = NotSelected
    /\ sizing = <<>>
    /\ trade_plan = <<>>
    /\ SizedIdle /\ ExitIdle /\ EvalIdle /\ ScanIdle /\ SchedIdle /\ SafetyIdle
    /\ rounded = <<>>
    /\ \E value \in RoundValues, step_size \in StepSizes :
          rounding = <<[value |-> FloatLiteral(value),
                        step_size |-> FloatLiteral(step_size),
                        literals |-> <<value, step_size>>]>>

\* round_step is applied to a value, and then to its own result.
RoundStep ==
    /\ rounding # <<>>
    /\ Len(rounded) < 2
    /\ rounded' = Append(rounded,
                         round_step(IF rounded = <<>> THEN rounding[1].value ELSE rounded[1],
                                    rounding[1].step_size))
    /\ UNCHANGED coreVars
    /\ UNCHANGED <<issued, given, signals, best_signal, sizing, trade_plan, rounding>>
    /\ UNCHANGED <<sizedVars, exitVars, evalVars, scanVars, schedVars, safetyVars>>

NextRound == RoundStep

SpecRound == InitRound /\ [][NextRound]_vars

-----------------------------------------------------------------------------
(* Sizing followed by the rounding to the exchange's step and tick sizes   *)

\* The stepSize and tickSize of get_instrument_info: 0.001 and 0.01, or 0.01
\* and 0.1.
InstInfos ==
    {[stepSize |-> <<<<1>>, 3>>, tickSize |-> <<<<1>>, 2>>],
     [stepSize |-> <<<<1>>, 2>>, tickSize |-> <<<<1>>, 1>>]}

InitSized ==
    /\ haltRow = "none"
    /\ LifecycleIdle
    /\ issued = <<>>
    /\ given = <<>>
    /\ signals = <<>>
    /\ best_signal = NotSelected
    /\ trade_plan = <<>>
    /\ RoundIdle /\ ExitIdle /\ EvalIdle /\ ScanIdle /\ SchedIdle /\ SafetyIdle
    /\ plan_rounded = FALSE
    /\ \E info \in InstInfos :
          inst_info = <<[stepSize |-> FloatLiteral(info.stepSize),
                         tickSize |-> FloatLiteral(info.tickSize)]>>
    /\ \E direction \in {"LONG", "SHORT"}, price \in Prices \ {<<391, 1>>, <<36, 10>>},
          atr_ltf \in Volatilities \ {<<25, 1>>},
          atr_stop_multiplier \in StopMultipliers \ {<<2, 1>>},
          total_equity \in {<<100000, 1>>},
          available_equity \in AvailableEquities \ {<<20000, 1>>, <<240, 1>>} :
          sizing = <<[direction |-> direction,
                      price |-> Literal(price),
                      atr_ltf |-> Literal(atr_ltf),
                      atr_stop_multiplier |-> Literal(atr_stop_multiplier),
                      total_equity |-> Literal(total_equity),
                      available_equity |-> Literal(available_equity),
                      literals |-> <<price, atr_ltf, atr_stop_multiplier,
                                     total_equity, available_equity>>]>>

\* on_15m_close rounds the plan's quantity to the step size and its stop and
\* target to the tick size.
RoundedPlan(plan, info) ==
    [field \in DOMAIN plan |->
        IF field \in {"qty", "stop_price", "tp_price"}
        THEN round_step(plan[field], IF field = "qty" THEN info.stepSize ELSE info.tickSize)
        ELSE plan[field]]

RoundPlan ==
    /\ trade_plan # <<>>
    /\ inst_info # <<>>
    /\ ~plan_rounded
    /\ trade_plan' = <<RoundedPlan(trade_plan[1], inst_info[1])>>
    /\ plan_rounded' = TRUE
    /\ UNCHANGED coreVars
    /\ UNCHANGED <<issued, given, signals, best_signal, sizing, inst_info>>
    /\ UNCHANGED <<roundVars, exitVars, evalVars, scanVars, schedVars, safetyVars>>

NextSized == SizePlan \/ RoundPlan

SpecSized == InitSized /\ [][NextSized]_vars

-----------------------------------------------------------------------------
(* Signal engine and regime exits                                          *)

\* Python values by type: indicator values and prices are floats (whole
\* numbers here, on which the float arithmetic below is exact), a missing
\* indicator is None, the time of a candle is a pandas Timestamp.
Float(n) == [type |-> "float", v |-> n]
None == [type |-> "NoneType", v |-> 0]
Timestamp(n) == [type |-> "Timestamp", v |-> n]

\* (variant: a price on the edge of the band counts as trending)
evaluate_trend_edge_trending(price, ema_200, atr_htf) ==
    IF atr_htf.type # "float" \/ ema_200.type # "float" \/ price.type # "float"
    THEN "TypeError"
    ELSE IF 2 * price.v >= 2 * ema_200.v + atr_htf.v THEN "BULL"
    ELSE IF 2 * price.v <= 2 * ema_200.v - atr_htf.v THEN "BEAR"
    ELSE "NEUTRAL_BUFFER"

\* SignalEngine.evaluate_trend, BUFFER_MULTIPLIER being 0.5: the comparisons
\* are made on the doubled values.  An operand that is not a number raises
\* TypeError.
evaluate_trend(price, ema_200, atr_htf) ==
    IF atr_htf.type # "float" \/ ema_200.type # "float" \/ price.type # "float"
    THEN "TypeError"
    ELSE IF 2 * price.v > 2 * ema_200.v + atr_htf.v THEN "BULL"
    ELSE IF 2 * price.v < 2 * ema_200.v - atr_htf.v THEN "BEAR"
    ELSE "NEUTRAL_BUFFER"

\* SignalEngine.check_volatility_gate
check_volatility_gate(snapshot, bundle) ==
    IF bundle.vol_gate_type = "ATR_GT_ATRMA"
    THEN IF snapshot.atr_ltf.type # "float" THEN [raised |-> TRUE, ret |-> FALSE]
         ELSE [raised |-> FALSE,
               ret |-> snapshot.atr_ltf.v > (IF snapshot.atr_ma_ltf.type = "float"
                                             THEN snapshot.atr_ma_ltf.v ELSE 0)]
    ELSE IF bundle.vol_gate_type = "ATR_PERCENTILE"
    THEN IF snapshot.atr_percentile_ltf.type # "float" THEN [raised |-> TRUE, ret |-> FALSE]
         ELSE [raised |-> FALSE,
               ret |-> snapshot.atr_percentile_ltf.v >= bundle.atr_percentile_threshold]
    ELSE [raised |-> FALSE, ret |-> FALSE]

\* FUNDING_EXTREME_THRESHOLD = 0.001; funding rates are counted in 1/10000.
FUNDING_EXTREME_THRESHOLD == 10

Raised == [raised |-> TRUE, exit |-> FALSE, reason |-> "None"]
Exit(reason) == [raised |-> FALSE, exit |-> TRUE, reason |-> reason]
Hold == [raised |-> FALSE, exit |-> FALSE, reason |-> "None"]

\* RegimeExitEngine.should_exit
should_exit(current_position, snapshot, bundle, funding_rate) ==
    LET trend_state == evaluate_trend(snapshot.timestamp, snapshot.ema_200_htf,
                                      snapshot.atr_htf)
        vol_gate == check_volatility_gate(snapshot, bundle)
        momentum_fail ==
            IF current_position.direction = "LONG"
            THEN snapshot.rsi_ltf.v < bundle.rsi_reference
            ELSE snapshot.rsi_ltf.v > 100 - bundle.rsi_reference
    IN  IF trend_state = "TypeError" THEN Raised
        ELSE IF vol_gate.raised THEN Raised
        ELSE IF ~vol_gate.ret THEN Exit("VOL_CONTRACTION")
        ELSE IF snapshot.rsi_ltf.type # "float" THEN Raised
        ELSE IF momentum_fail THEN Exit("MOMENTUM_FAIL")
        ELSE IF current_position.direction = "LONG" /\ trend_state = "BEAR"
        THEN Exit("TREND_INVALID")
        ELSE IF current_position.direction = "SHORT" /\ trend_state = "BULL"
        THEN Exit("TREND_INVALID")
        ELSE IF current_position.direction = "LONG"
                /\ funding_rate < -FUNDING_EXTREME_THRESHOLD
        THEN Exit("FUNDING_EXTREME")
        ELSE IF current_position.direction = "SHORT"
                /\ funding_rate > FUNDING_EXTREME_THRESHOLD
        THEN Exit("FUNDING_EXTREME")
        ELSE Hold

\* The time of the last candle as get_snapshot sets it (a Timestamp), and
\* plain numbers in its place.
Timestamps == {Timestamp(1), Float(90), Float(110)}

\* Prices around a moving average of 100 with a higher-timeframe volatility
\* of 4: below, on and above the band 98..102.
EMA_200 == 100
ATR_HTF == 4
CurrentPrices == {97, 98, 100, 102, 103}
Momenta == {40, 45, 55, 60}
References == {45, 55}
FundingRates == {-20, -10, 0, 10, 20}

\* Volatility readings, and the bundle's gate over them.
VolReadings ==
    {[atr_ltf |-> a, atr_ma_ltf |-> ma, atr_percentile_ltf |-> p] :
        a \in {Float(2)}, ma \in {Float(1), Float(2), Float(0), None},
        p \in {Float(50), Float(80)}}
GateTypes == {"ATR_GT_ATRMA", "ATR_PERCENTILE", "OFF"}
PercentileThreshold == 80

Snapshots ==
    {[timestamp |-> t, current_price |-> Float(price), ema_200_htf |-> Float(EMA_200),
      atr_htf |-> Float(ATR_HTF), rsi_ltf |-> Float(rsi), atr_ltf |-> vol.atr_ltf,
      atr_ma_ltf |-> vol.atr_ma_ltf, atr_percentile_ltf |-> vol.atr_percentile_ltf] :
        t \in Timestamps, price \in CurrentPrices, rsi \in Momenta, vol \in VolReadings}

Bundles ==
    {[rsi_reference |-> ref, vol_gate_type |-> gate,
      atr_percentile_threshold |-> PercentileThreshold] :
        ref \in References, gate \in GateTypes}

InitExit ==
    /\ haltRow = "none"
    /\ LifecycleIdle
    /\ issued = <<>>
    /\ given = <<>>
    /\ signals = <<>>
    /\ best_signal = NotSelected
    /\ sizing = <<>>
    /\ trade_plan = <<>>
    /\ RoundIdle /\ SizedIdle /\ EvalIdle /\ ScanIdle /\ SchedIdle /\ SafetyIdle
    /\ exit_result = <<>>
    /\ \E direction \in {"LONG", "SHORT"}, snapshot \in Snapshots, bundle \in Bundles,
          funding_rate \in FundingRates :
          exit_args = <<[current_position |-> [direction |-> direction],
                         snapshot |-> snapshot, bundle |-> bundle,
                         funding_rate |-> funding_rate]>>

\* manage_existing_position asks the exit engine about the open position.
ShouldExit ==
    /\ exit_args # <<>>
    /\ exit_result = <<>>
    /\ exit_result' = <<should_exit(exit_args[1].current_position, exit_args[1].snapshot,
                                    exit_args[1].bundle, exit_args[1].funding_rate)>>
    /\ UNCHANGED coreVars
    /\ UNCHANGED <<issued, given, signals, best_signal, sizing, trade_plan, exit_args>>
    /\ UNCHANGED <<roundVars, sizedVars, evalVars, scanVars, schedVars, safetyVars>>

NextExit == ShouldExit

SpecExit == InitExit /\ [][NextExit]_vars

\* abs(x)
AbsInt(x) == IF x < 0 THEN -x ELSE x

NoSignal == [raised |-> FALSE, ret |-> <<>>]
SignalRaised == [raised |-> TRUE, ret |-> <<>>]

\* SignalEngine.evaluate_signal: an EligibleSignal, None, or an exception
\* (TypeError on a missing value, ZeroDivisionError on a zero atr_htf).
evaluate_signal(instrument_id, symbol, price, snapshot, bundle, liquidity_rank) ==
    LET trend_state == evaluate_trend(price, snapshot.ema_200_htf, snapshot.atr_htf)
        vol_gate == check_volatility_gate(snapshot, bundle)
        direction ==
            IF trend_state = "BULL" /\ snapshot.rsi_ltf.v >= bundle.rsi_reference THEN "LONG"
            ELSE IF trend_state = "BEAR" /\ snapshot.rsi_ltf.v <= 100 - bundle.rsi_reference
            THEN "SHORT"
            ELSE "None"
        trend_strength == FDiv(FromNat(AbsInt(price.v - snapshot.ema_200_htf.v)),
                               FromNat(snapshot.atr_htf.v))
        vol_expansion ==
            IF bundle.vol_gate_type = "ATR_PERCENTILE"
            THEN FDiv(FromNat(snapshot.atr_percentile_ltf.v), FromNat(100))
            ELSE IF snapshot.atr_ma_ltf.type = "float" /\ snapshot.atr_ma_ltf.v # 0
            THEN FDiv(FromNat(snapshot.atr_ltf.v), FromNat(snapshot.atr_ma_ltf.v))
            ELSE FromNat(0)
    IN  IF trend_state = "TypeError" \/ vol_gate.raised THEN SignalRaised
        ELSE IF trend_state # "NEUTRAL_BUFFER" /\ snapshot.rsi_ltf.type # "float"
        THEN SignalRaised
        ELSE IF direction = "None" \/ ~vol_gate.ret THEN NoSignal
        ELSE IF snapshot.atr_htf.v = 0 THEN SignalRaised
        ELSE IF snapshot.atr_ma_ltf.type = "float" /\ snapshot.atr_ma_ltf.v # 0
                /\ snapshot.atr_ltf.type # "float"
        THEN SignalRaised
        ELSE IF bundle.vol_gate_type = "ATR_PERCENTILE"
                /\ snapshot.atr_percentile_ltf.type # "float"
        THEN SignalRaised
        ELSE [raised |-> FALSE,
              ret |-> <<[instrument_id |-> instrument_id,
                         symbol |-> symbol,
                         direction |-> direction,
                         eval_timestamp |-> snapshot.timestamp,
                         htf_trend_state |-> trend_state,
                         vol_expansion_score |-> vol_expansion,
                         trend_strength_score |-> trend_strength,
                         liquidity_rank |-> liquidity_rank]>>]

InitEval ==
    /\ haltRow = "none"
    /\ LifecycleIdle
    /\ issued = <<>>
    /\ given = <<>>
    /\ signals = <<>>
    /\ best_signal = NotSelected
    /\ sizing = <<>>
    /\ trade_plan = <<>>
    /\ RoundIdle /\ SizedIdle /\ ExitIdle /\ ScanIdle /\ SchedIdle /\ SafetyIdle
    /\ eval_result = <<>>
    /\ \E snapshot \in Snapshots, bundle \in Bundles :
          /\ snapshot.timestamp = Timestamp(1)
          /\ eval_args = <<[instrument_id |-> 1, symbol |-> "ETHUSDT",
                            price |-> snapshot.current_price, snapshot |-> snapshot,
                            bundle |-> bundle, liquidity_rank |-> 1]>>

\* on_15m_close evaluates an instrument.
EvaluateSignal ==
    /\ eval_args # <<>>
    /\ eval_result = <<>>
    /\ eval_result' = <<evaluate_signal(eval_args[1].instrument_id, eval_args[1].symbol,
                                        eval_args[1].price, eval_args[1].snapshot,
                                        eval_args[1].bundle, eval_args[1].liquidity_rank)>>
    /\ UNCHANGED coreVars
    /\ UNCHANGED <<issued, given, signals, best_signal, sizing, trade_plan, eval_args>>
    /\ UNCHANGED <<roundVars, sizedVars, exitVars, scanVars, schedVars, safetyVars>>

NextEval == EvaluateSignal

SpecEval == InitEval /\ [][NextEval]_vars

-----------------------------------------------------------------------------
(* Signal generation, selection and sizing within a cycle                  *)

\* The most instruments of a watchlist.
MaxInstruments == 3

\* What the evaluation of an instrument can meet: a price above the band
\* with momentum and gate passing (far above, or nearer), a price within the
\* band, no active bundle, fewer than 200 hourly candles (get_snapshot leaves
\* ema_200_htf and atr_htf None), no candles at all (get_candles returned an
\* empty frame and get_snapshot raises IndexError).
Situations ==
    {"trending", "trending_less", "ranging", "no_bundle", "short_history", "no_candles"}

\* Instrument k of the watchlist in the given situation; its volatility, its
\* bundle id and its stop multiplier are its own.
Instrument(k, situation) ==
    [instrument_id |-> k,
     symbol |-> Alphabetical[k],
     liquidity_rank |-> k,
     candles |-> situation # "no_candles",
     bundle |-> IF situation = "no_bundle" THEN <<>>
                ELSE <<[parameter_bundle_id |-> 10 + k,
                        rsi_reference |-> 55,
                        vol_gate_type |-> "ATR_GT_ATRMA",
                        atr_percentile_threshold |-> PercentileThreshold,
                        atr_stop_multiplier |-> k]>>,
     snapshot |-> [timestamp |-> Timestamp(1),
                   current_price |-> Float(CASE situation = "trending" -> 104
                                             [] situation = "trending_less" -> 103
                                             [] OTHER -> 100),
                   ema_200_htf |-> IF situation = "short_history" THEN None
                                   ELSE Float(EMA_200),
                   atr_htf |-> IF situation = "short_history" THEN None ELSE Float(ATR_HTF),
                   rsi_ltf |-> Float(60),
                   atr_ltf |-> Float(1 + k),
                   atr_ma_ltf |-> Float(1),
                   atr_percentile_ltf |-> Float(50)]]

InitScan ==
    /\ haltRow = "none"
    /\ LifecycleIdle
    /\ issued = <<>>
    /\ given = <<>>
    /\ signals = <<>>
    /\ best_signal = NotSelected
    /\ sizing = <<>>
    /\ trade_plan = <<>>
    /\ RoundIdle /\ SizedIdle /\ ExitIdle /\ EvalIdle /\ SchedIdle /\ SafetyIdle
    /\ \E n \in 1..MaxInstruments :
          \E situation \in [1..n -> Situations] :
              instruments = [k \in 1..n |-> Instrument(k, situation[k])]
    /\ scan_pc = "loop"
    /\ scan_i = 1
    /\ cycle_snapshot = <<>>
    /\ cycle_bundle = <<>>
    /\ plan_args = <<>>

\* One pass of the loop over the instruments.  An exception leaves the loop
\* and the try block for the handler that logs it.
ScanInstrument ==
    /\ scan_pc = "loop"
    /\ scan_i <= Len(instruments)
    /\ LET inst == instruments[scan_i]
           signal == evaluate_signal(inst.instrument_id, inst.symbol,
                                     inst.snapshot.current_price, inst.snapshot,
                                     inst.bundle[1], inst.liquidity_rank)
       IN  /\ cycle_bundle' = inst.bundle
           /\ IF inst.bundle = <<>>
              THEN /\ scan_i' = scan_i + 1
                   /\ UNCHANGED <<cycle_snapshot, signals, scan_pc>>
              ELSE IF ~inst.candles
              THEN /\ scan_pc' = "failed"
                   /\ UNCHANGED <<cycle_snapshot, signals, scan_i>>
              ELSE /\ cycle_snapshot' = <<inst.snapshot>>
                   /\ IF signal.raised
                      THEN /\ scan_pc' = "failed"
                           /\ UNCHANGED <<signals, scan_i>>
                      ELSE /\ signals' = signals \o signal.ret
                           /\ scan_i' = scan_i + 1
                           /\ UNCHANGED scan_pc
    /\ UNCHANGED coreVars
    /\ UNCHANGED <<issued, given, best_signal, sizing, trade_plan, instruments, plan_args>>
    /\ UNCHANGED <<roundVars, sizedVars, exitVars, evalVars, schedVars, safetyVars>>

\* The eligible signals go to the Selector.
ScanSelect ==
    /\ scan_pc = "loop"
    /\ scan_i > Len(instruments)
    /\ signals' = select_best_signal(signals).signals
    /\ best_signal' = [called |-> TRUE, ret |-> select_best_signal(signals).ret]
    /\ scan_pc' = IF select_best_signal(signals).ret = <<>> THEN "done" ELSE "size"
    /\ UNCHANGED coreVars
    /\ UNCHANGED <<issued, given, sizing, trade_plan, instruments, scan_i, cycle_snapshot,
                   cycle_bundle, plan_args>>
    /\ UNCHANGED <<roundVars, sizedVars, exitVars, evalVars, schedVars, safetyVars>>

\* The plan of the selected signal is sized and persisted from the loop's
\* variables snapshot and bundle; with bundle None the attribute access
\* raises.
ScanSize ==
    /\ scan_pc = "size"
    /\ IF cycle_bundle = <<>>
       THEN /\ scan_pc' = "failed"
            /\ UNCHANGED plan_args
       ELSE /\ plan_args' = <<[signal |-> best_signal.ret[1],
                               price |-> cycle_snapshot[1].current_price,
                               atr_ltf |-> cycle_snapshot[1].atr_ltf,
                               atr_stop_multiplier |-> cycle_bundle[1].atr_stop_multiplier,
                               parameter_bundle_id |-> cycle_bundle[1].parameter_bundle_id]>>
            /\ scan_pc' = "planned"
    /\ UNCHANGED coreVars
    /\ UNCHANGED <<issued, given, signals, best_signal, sizing, trade_plan, instruments, scan_i,
                   cycle_snapshot, cycle_bundle>>
    /\ UNCHANGED <<roundVars, sizedVars, exitVars, evalVars, schedVars, safetyVars>>

NextScan == ScanInstrument \/ ScanSelect \/ ScanSize

SpecScan == InitScan /\ [][NextScan]_vars

-----------------------------------------------------------------------------
(* The scheduler and the runs of on_15m_close                              *)

\* How many fire times of the cron trigger the model lets pass.
MaxFires == 4

\* The runs of on_15m_close that have started and not returned.
InProgress == {r \in DOMAIN job_runs : job_runs[r].pc # "returned"}

InitSched ==
    /\ haltRow \in {"none", "false", "true"}
    /\ LifecycleIdle
    /\ issued = <<>>
    /\ given = <<>>
    /\ signals = <<>>
    /\ best_signal = NotSelected
    /\ sizing = <<>>
    /\ trade_plan = <<>>
    /\ RoundIdle /\ SizedIdle /\ ExitIdle /\ EvalIdle /\ ScanIdle
    /\ SchedIdle /\ SafetyIdle

\* A fire time of the cron trigger (minute 0,15,30,45, second 1): a run of
\* on_15m_close is started.  run() registers the job with no limit of its
\* own and on_15m_close takes no lock, so nothing in the program holds a
\* fire time back while an earlier run is in progress; what the scheduler
\* library itself does with such a fire time is not part of this model.
Fire ==
    /\ fire_times < MaxFires
    /\ fire_times' = fire_times + 1
    /\ job_runs' = Append(job_runs, [pc |-> "started", observed |-> "unread"])
    /\ UNCHANGED <<open_position, entries>>
    /\ UNCHANGED coreVars
    /\ UNCHANGED <<issued, given, signals, best_signal, sizing, trade_plan>>
    /\ UNCHANGED <<roundVars, sizedVars, exitVars, evalVars, scanVars, safetyVars>>

\* on_15m_close, step 1: a halted system ends the run.
RunHaltCheck ==
    /\ \E r \in DOMAIN job_runs :
          /\ job_runs[r].pc = "started"
          /\ job_runs' = [job_runs EXCEPT ![r].pc =
                             IF is_system_halted(haltRow) THEN "returned" ELSE "halt_checked"]
    /\ UNCHANGED <<fire_times, open_position, entries>>
    /\ UNCHANGED coreVars
    /\ UNCHANGED <<issued, given, signals, best_signal, sizing, trade_plan>>
    /\ UNCHANGED <<roundVars, sizedVars, exitVars, evalVars, scanVars, safetyVars>>

\* on_15m_close, step 2: the run reads the open position; with one it
\* manages that position and returns, without one it goes on to the signals.
RunReadPosition ==
    /\ \E r \in DOMAIN job_runs :
          /\ job_runs[r].pc = "halt_checked"
          /\ job_runs' = [job_runs EXCEPT ![r] =
                             IF open_position
                             THEN [pc |-> "returned", observed |-> "open_position"]
                             ELSE [pc |-> "signals", observed |-> "no_open_position"]]
    /\ UNCHANGED <<fire_times, open_position, entries>>
    /\ UNCHANGED coreVars
    /\ UNCHANGED <<issued, given, signals, best_signal, sizing, trade_plan>>
    /\ UNCHANGED <<roundVars, sizedVars, exitVars, evalVars, scanVars, safetyVars>>

\* on_15m_close, steps 3 to 6: without a best signal the run returns, with
\* one execute_trade submits the ENTRY order.
RunSubmitEntry ==
    /\ \E r \in DOMAIN job_runs, best \in BOOLEAN :
          /\ job_runs[r].pc = "signals"
          /\ job_runs' = [job_runs EXCEPT ![r].pc =
                             IF best THEN "entry_submitted" ELSE "returned"]
          /\ entries' = IF best THEN entries + 1 ELSE entries
    /\ UNCHANGED <<fire_times, open_position>>
    /\ UNCHANGED coreVars
    /\ UNCHANGED <<issued, given, signals, best_signal, sizing, trade_plan>>
    /\ UNCHANGED <<roundVars, sizedVars, exitVars, evalVars, scanVars, safetyVars>>

\* on_15m_close after execute_trade: on success the Position is created
\* OPEN by the commit.
RunPersist ==
    /\ \E r \in DOMAIN job_runs, success \in BOOLEAN :
          /\ job_runs[r].pc = "entry_submitted"
          /\ job_runs' = [job_runs EXCEPT ![r].pc = "persisted"]
          /\ open_position' = (open_position \/ success)
    /\ UNCHANGED <<fire_times, entries>>
    /\ UNCHANGED coreVars
    /\ UNCHANGED <<issued, given, signals, best_signal, sizing, trade_plan>>
    /\ UNCHANGED <<roundVars, sizedVars, exitVars, evalVars, scanVars, safetyVars>>

\* on_15m_close after the commit: the notification is sent and the run
\* returns.
RunReturn ==
    /\ \E r \in DOMAIN job_runs :
          /\ job_runs[r].pc = "persisted"
          /\ job_runs' = [job_runs EXCEPT ![r].pc = "returned"]
    /\ UNCHANGED <<fire_times, open_position, entries>>
    /\ UNCHANGED coreVars
    /\ UNCHANGED <<issued, given, signals, best_signal, sizing, trade_plan>>
    /\ UNCHANGED <<roundVars, sizedVars, exitVars, evalVars, scanVars, safetyVars>>

NextSched ==
    Fire \/ RunHaltCheck \/ RunReadPosition \/ RunSubmitEntry \/ RunPersist \/ RunReturn

SpecSched == InitSched /\ [][NextSched]_vars

-----------------------------------------------------------------------------
(* The API health counters of the SafetySupervisor                        *)

MaxCalls == 24
MaxErrors == 3

\* The latencies handed to record_api_call, in milliseconds.
Latencies == {500, 1500}

LATENCY_THRESHOLD_MS == 1000

\* ERROR_THRESHOLD_PERCENT, 5.0.
ERROR_THRESHOLD_PERCENT == 5

\* The number of recorded calls above which the error rate is looked at.
MinRequests == 20

\* (error_count / total_requests) * 100 > ERROR_THRESHOLD_PERCENT.  The
\* quotient is rounded to the nearest double and so is the product; a rate of
\* exactly one in twenty gives the double nearest 0.05, whose product with 100
\* rounds to 5.0, and every other rate differs from 5 by far more than the
\* rounding, so the comparison of the doubles is the comparison of the
\* integers.
error_rate_exceeds(errors, total) == errors * 100 > ERROR_THRESHOLD_PERCENT * total

\* record_api_call: what the call leaves in the counters, whether it logged
\* the latency warning and whether it raised.
record_api_call(errors, total, success, latency_ms) ==
    LET new_total == total + 1
        new_errors == IF success THEN errors ELSE errors + 1
    IN  [error_count |-> new_errors,
         total_requests |-> new_total,
         warned |-> latency_ms > LATENCY_THRESHOLD_MS,
         raised |-> new_total > MinRequests /\ error_rate_exceeds(new_errors, new_total)]

InitSafety ==
    /\ haltRow \in {"none", "false", "true"}
    /\ LifecycleIdle
    /\ issued = <<>>
    /\ given = <<>>
    /\ signals = <<>>
    /\ best_signal = NotSelected
    /\ sizing = <<>>
    /\ trade_plan = <<>>
    /\ RoundIdle /\ SizedIdle /\ ExitIdle /\ EvalIdle /\ ScanIdle
    /\ SchedIdle /\ SafetyIdle

\* One call of record_api_call on the supervisor.
RecordApiCall ==
    /\ total_requests < MaxCalls
    /\ \E success \in BOOLEAN, latency_ms \in Latencies :
          /\ success \/ error_count < MaxErrors
          /\ LET after == record_api_call(error_count, total_requests, success, latency_ms)
             IN  /\ error_count' = after.error_count
                 /\ total_requests' = after.total_requests
                 /\ halt_raised' = after.raised
                 /\ latency_warning' = after.warned
          /\ api_outcomes' = Append(api_outcomes, success)
    /\ UNCHANGED coreVars
    /\ UNCHANGED <<issued, given, signals, best_signal, sizing, trade_plan>>
    /\ UNCHANGED <<roundVars, sizedVars, exitVars, evalVars, scanVars, schedVars>>

NextSafety == RecordApiCall

SpecSafety == InitSafety /\ [][NextSafety]_vars

-----------------------------------------------------------------------------
(* Properties                                                              *)

\* The calls of the current cycle with the given operation.
CallsOf(op) == {i \in DOMAIN calls : calls[i].op = op}

EntryAccepted == \E i \in CallsOf("ENTRY") : calls[i].res = "ok"

ProtectionFailed == \E i \in CallsOf("STOP") \cup CallsOf("TP") : calls[i].res = "fail"

StopAccepted == \E i \in CallsOf("STOP") : calls[i].res = "ok"

TpAccepted == \E i \in CallsOf("TP") : calls[i].res = "ok"

PreflightFailed == \E i \in CallsOf("LEVERAGE") \cup CallsOf("MARGIN") : calls[i].res = "fail"

\* The cycle that made the calls has run to its end (it was not cut short
\* by a restart).
Ended == pc = "idle" /\ cycleResult # "restarted"

\* The step submits an ENTRY order.
EntryIssuedStep ==
    /\ Len(calls') = Len(calls) + 1
    /\ calls'[Len(calls')].op = "ENTRY"

EntryFailed == \E i \in CallsOf("ENTRY") : calls[i].res = "fail"

\* The account states for which the Safety Supervisor must halt.
BadAccount == {"bad_leverage", "bad_margin"}

\* The fields of a client order id: the pieces between its underscores.
RECURSIVE SplitFields(_)
SplitFields(cid) ==
    IF \A i \in DOMAIN cid : cid[i] # Sep
    THEN <<cid>>
    ELSE LET i == CHOOSE j \in DOMAIN cid :
                      cid[j] = Sep /\ \A k \in 1..(j - 1) : cid[k] # Sep
         IN  <<SubSeq(cid, 1, i - 1)>> \o SplitFields(SubSeq(cid, i + 1, Len(cid)))

\* The roles the specified id format allows.
FormatRoles == {<<"ENTRY">>, <<"STOP">>, <<"TP">>, <<"CLOSE">>}

\* The id reads as {botId}_{tradePlanId}_{role}_{attempt} with an allowed role.
WellFormedCid(cid) ==
    LET f == SplitFields(cid)
    IN  /\ Len(f) = 4
        /\ f[1] = BotId
        /\ f[2] # <<>>
        /\ f[3] \in FormatRoles
        /\ f[4] # <<>>

\* The calls that submit an order, and so carry a client order id.
OrderCalls == {i \in DOMAIN calls : calls[i].op \in {"ENTRY", "STOP", "TP", "CLOSE"}}

HasNonTerminal == \E i \in 1..Len(positions) : positions[i].status \in NonTerminal

\* C1: once the ENTRY was accepted and the STOP or the TP submission failed,
\* execute_trade never reports success, and when it has ended it has raised
\* the halt after exactly one reduce-only market close and exactly one
\* cancel-all for the symbol of the trade.
C1_ProtectionFailureHalts ==
    (EntryAccepted /\ ProtectionFailed) =>
        /\ outcome # "PROTECTED"
        /\ Ended =>
            /\ outcome = "HALTED"
            /\ Cardinality(CallsOf("CLOSE")) = 1
            /\ \A i \in CallsOf("CLOSE") :
                  /\ calls[i].ro
                  /\ calls[i].kind = "MARKET"
                  /\ calls[i].sym = plans[cur].symbol
            /\ Cardinality(CallsOf("CANCEL_ALL")) = 1
            /\ \A i \in CallsOf("CANCEL_ALL") : calls[i].sym = plans[cur].symbol

C1_Witness ==
    /\ Ended
    /\ EntryAccepted
    /\ \E i \in CallsOf("STOP") : calls[i].res = "fail"
    /\ outcome = "HALTED"

\* C2: a run in which the ENTRY was accepted ends either PROTECTED with both
\* protective orders accepted or with the emergency close submitted, and
\* success is returned exactly when both protective submissions succeeded.
C2_ProtectionInvariant ==
    /\ outcome = "PROTECTED" => (EntryAccepted /\ StopAccepted /\ TpAccepted)
    /\ (Ended /\ EntryAccepted) =>
          /\ (StopAccepted /\ TpAccepted) => outcome = "PROTECTED"
          /\ \/ outcome = "PROTECTED" /\ StopAccepted /\ TpAccepted
             \/ outcome # "PROTECTED" /\ CallsOf("CLOSE") # {}

C2_Witness ==
    /\ Ended
    /\ EntryAccepted
    /\ StopAccepted
    /\ \E i \in CallsOf("TP") : calls[i].res = "fail"
    /\ CallsOf("CLOSE") # {}

\* C3: the emergency path runs to its end whatever each step returns: after
\* the close attempt the cancel-all is attempted and the halt is raised,
\* also when the close failed and also when the cancel-all failed.
C3_EmergencyPathCompletes ==
    CallsOf("CLOSE") # {} =>
        /\ pc \in {"cancel_all", "raise_halt", "idle"}
        /\ pc = "raise_halt" =>
              \E i \in CallsOf("CLOSE"), j \in CallsOf("CANCEL_ALL") : i < j
        /\ Ended =>
              /\ \E i \in CallsOf("CLOSE"), j \in CallsOf("CANCEL_ALL") : i < j
              /\ outcome = "HALTED"

C3_Witness ==
    /\ Ended
    /\ \E i \in CallsOf("CLOSE") : calls[i].res = "fail"
    /\ \E j \in CallsOf("CANCEL_ALL") : calls[j].res = "fail"
    /\ outcome = "HALTED"

\* C4: after a cycle ended with a protection failure or a safety invariant
\* violation the persisted halt flag is set.
C4_HaltFlagSetAfterFailure ==
    cycleResult \in {"protection_halt", "safety_halt"} => haltRow = "true"

\* C5: a cycle that starts while the halt flag is set is skipped: it
\* persists no trade plan and makes no exchange call; and no step of the
\* program clears the flag, writes a plan or submits an order while it is
\* set.
C5_HaltGate ==
    /\ [](haltedAtStart =>
            (calls = <<>> /\ cur = 0 /\ pc = "idle" /\ cycleResult = "skipped_halted"))
    /\ [][haltRow = "true" =>
            (haltRow' = "true" /\ plans' = plans /\ positions' = positions
             /\ calls' = <<>>)]_vars

C5_Witness == haltedAtStart /\ cycleResult = "skipped_halted" /\ haltRow = "true"

\* C6: at most one Position is in a non-terminal status, and while one is,
\* no step persists a trade plan or submits an ENTRY order: the cycle only
\* manages the position.
C6_SinglePosition ==
    /\ [](Cardinality({i \in 1..Len(positions) :
                          positions[i].status \in NonTerminal}) <= 1)
    /\ [][HasNonTerminal =>
            (plans' = plans /\ ~EntryIssuedStep /\ pc' = "idle"
             /\ (pc = "idle" /\ cycleResult' # cycleResult =>
                    cycleResult' \in {"managed_hold", "managed_error", "skipped_halted",
                                      "restarted"}))]_vars

C6_Witness ==
    /\ HasNonTerminal
    /\ cycleResult \in {"managed_hold", "managed_error"}

\* C7: no ENTRY order is submitted while the exchange reports a non-zero
\* position on any instrument.
C7_NoDoubleOpen == [][EntryIssuedStep => exPos = {}]_vars

\* C8: a run of the reconciler that is given an exchange position with no
\* matching local record creates no record and gives its caller a result
\* that tells the unreconciled state (an exception, or a return value other
\* than the one a flat exchange gives); with every exchange position matched
\* the caller gets the normal result.
C8_UnreconciledSurfaced ==
    recon.ran =>
        /\ recon.created = {}
        /\ recon.unmatched # {} => (recon.raised \/ recon.ret # recon.flatRet)
        /\ recon.unmatched = {} => (~recon.raised /\ recon.ret = recon.flatRet)

\* C9: inside execute_trade the pre-flight calls precede the ENTRY, every
\* STOP and TP submission follows an accepted ENTRY, and the emergency close
\* follows a failed protective submission and both protective submissions.
C9_ExecutionOrdering ==
    /\ \A i \in CallsOf("ENTRY") :
          /\ \E j \in CallsOf("LEVERAGE") : j < i /\ calls[j].res = "ok"
          /\ \E j \in CallsOf("MARGIN") : j < i /\ calls[j].res # "fail"
    /\ \A i \in CallsOf("STOP") \cup CallsOf("TP") :
          \E j \in CallsOf("ENTRY") : j < i /\ calls[j].res = "ok"
    /\ \A i \in CallsOf("CLOSE") :
          /\ \E j \in CallsOf("STOP") \cup CallsOf("TP") : j < i /\ calls[j].res = "fail"
          /\ \E j \in CallsOf("STOP") : j < i
          /\ \E j \in CallsOf("TP") : j < i
    /\ (StopAccepted /\ TpAccepted) => CallsOf("CLOSE") = {}
    /\ ~EntryAccepted => CallsOf("STOP") \cup CallsOf("TP") \cup CallsOf("CLOSE") = {}

C9_Witness ==
    /\ \E i \in CallsOf("TP"), j \in CallsOf("STOP"), k \in CallsOf("CLOSE") :
          i < j /\ j < k /\ calls[j].res = "fail"

\* C10: when the pre-flight fails no ENTRY, STOP, TP, close or cancel call is
\* made and no halt is raised; execute_trade returns failure, and the cycle
\* ends with the plan FAILED and no Position for it (the plan is left as it
\* was only when the database refused the commit of FAILED itself).
C10_PreflightAbort ==
    PreflightFailed =>
        /\ \A i \in DOMAIN calls : calls[i].op \in {"LEVERAGE", "MARGIN"}
        /\ outcome \notin {"PROTECTED", "HALTED"}
        /\ pc \in {"mark_failed", "idle"}
        /\ pc = "mark_failed" => outcome = "ABORTED"
        /\ Ended =>
              /\ outcome = "ABORTED"
              /\ cycleResult \in {"failed", "error"}
              /\ \/ plans[cur].status = "FAILED"
                 \/ cycleResult = "error" /\ plans[cur].status = "PLANNED"
              /\ \A i \in 1..Len(positions) : positions[i].plan # cur
              /\ notifs = {}

C10_Witness ==
    /\ Ended
    /\ \E i \in CallsOf("MARGIN") : calls[i].res = "fail"
    /\ plans[cur].status = "FAILED"

-----------------------------------------------------------------------------
\* C11: when the ENTRY submission fails no STOP, TP, emergency close or
\* cancel-all is issued and no halt is raised; execute_trade returns
\* failure, and the cycle ends with the plan FAILED and no Position for it
\* (the plan is left as it was only when the database refused the commit of
\* FAILED itself).
C11_EntryAbort ==
    EntryFailed =>
        /\ \A i \in DOMAIN calls : calls[i].op \in {"LEVERAGE", "MARGIN", "ENTRY"}
        /\ Cardinality(CallsOf("ENTRY")) = 1
        /\ outcome \notin {"PROTECTED", "HALTED"}
        /\ pc \in {"mark_failed", "idle"}
        /\ pc = "mark_failed" => outcome = "ABORTED"
        /\ Ended =>
              /\ outcome = "ABORTED"
              /\ cycleResult \in {"failed", "error"}
              /\ \/ plans[cur].status = "FAILED"
                 \/ cycleResult = "error" /\ plans[cur].status = "PLANNED"
              /\ \A i \in 1..Len(positions) : positions[i].plan # cur
              /\ notifs = {}

C11_Witness ==
    /\ Ended
    /\ EntryFailed
    /\ ~PreflightFailed
    /\ plans[cur].status = "FAILED"

\* C12: when the pre-trade check reads a leverage other than 1x or a margin
\* type other than isolated, the cycle ends in the safety-halt handler: no
\* plan is persisted, no Position is written and no order reaches the
\* exchange in that cycle.
C12_SafetyHaltBlocksEntry ==
    /\ [](acct \in BadAccount =>
            (pc = "idle" /\ cur = 0 /\ calls = <<>> /\ cycleResult = "safety_halt"))
    /\ [][acct' \in BadAccount =>
            (plans' = plans /\ positions' = positions
             /\ exOrders' = exOrders /\ exPos' = exPos)]_vars

C12_Witness ==
    /\ acct = "bad_margin"
    /\ cycleResult = "safety_halt"
    /\ Len(plans) = 1

\* C13: every halt, raised by the Safety Supervisor or by the Execution
\* Orchestrator after a protection failure, sends the halt alert in the
\* cycle that raised it.
C13_HaltAlerts ==
    cycleResult \in {"safety_halt", "protection_halt"} => "HALT" \in notifs

\* C14: every client order id handed to the exchange reads as
\* {botId}_{tradePlanId}_{role}_{attempt} with role one of ENTRY, STOP, TP,
\* CLOSE.
C14_CidFormat ==
    \A i \in OrderCalls : WellFormedCid(calls[i].cid)

\* C15: client order ids are deterministic and role-separating: two ids
\* generated for the same plan and role are identical, also across runs,
\* and ids generated for different roles or different plans differ.
C15_CidDeterministic ==
    \A i, j \in DOMAIN issued :
        (issued[i].plan = issued[j].plan /\ issued[i].role = issued[j].role)
            <=> issued[i].cid = issued[j].cid

C15_Witness ==
    /\ Len(issued) = 2
    /\ issued[1].plan = issued[2].plan
    /\ issued[1].role = ROLE_STOP
    /\ issued[2].role = ROLE_STOP
    /\ issued[1].run # issued[2].run
    /\ issued[1].cid = issued[2].cid

-----------------------------------------------------------------------------
\* The candidates of a list.
Elements(s) == {s[i] : i \in DOMAIN s}

\* The list `given` in the order p.
Permuted(p) == [i \in DOMAIN given |-> given[p[i]]]

\* x comes before y in the hierarchy: stronger trend, then stronger
\* volatility expansion, then lower liquidity rank, then lower symbol.
HierarchyBefore(x, y) ==
    \/ Less(y.trend_strength_score, x.trend_strength_score)
    \/ /\ x.trend_strength_score = y.trend_strength_score
       /\ Less(y.vol_expansion_score, x.vol_expansion_score)
    \/ /\ x.trend_strength_score = y.trend_strength_score
       /\ x.vol_expansion_score = y.vol_expansion_score
       /\ x.liquidity_rank < y.liquidity_rank
    \/ /\ x.trend_strength_score = y.trend_strength_score
       /\ x.vol_expansion_score = y.vol_expansion_score
       /\ x.liquidity_rank = y.liquidity_rank
       /\ SymbolKey(x.symbol) < SymbolKey(y.symbol)

\* C16: select_best_signal returns a candidate that is in its input, and
\* returns none exactly when the input is empty.
C16_SelectsFromInput ==
    best_signal.called =>
        /\ best_signal.ret = <<>> <=> given = <<>>
        /\ Len(best_signal.ret) <= 1
        /\ Elements(best_signal.ret) \subseteq Elements(given)
        /\ Elements(signals) = Elements(given) /\ Len(signals) = Len(given)

C16_Witness ==
    /\ best_signal.called
    /\ Len(given) = 1
    /\ best_signal.ret = given

\* C17: the selection does not depend on the order of the input: every
\* permutation of the candidate list, full ties included, gives the same
\* result.
C17_OrderIndependent ==
    best_signal.called =>
        \A p \in Permutations(DOMAIN given) :
            select_best_signal(Permuted(p)).ret = best_signal.ret

C17_Witness ==
    /\ best_signal.called
    /\ Len(given) = 3
    /\ \A i \in DOMAIN given :
          /\ given[i].trend_strength_score = given[1].trend_strength_score
          /\ given[i].vol_expansion_score = given[1].vol_expansion_score
          /\ given[i].liquidity_rank = given[1].liquidity_rank
    /\ best_signal.ret # <<given[1]>>

\* C18: the four successive stable sorts put first the candidate that is
\* first under the single ordering by trend strength descending, then
\* volatility expansion descending, then liquidity rank ascending, then
\* symbol ascending; the whole list ends in that order.
C18_MultiKeyFirst ==
    (best_signal.called /\ given # <<>>) =>
        /\ \A i \in DOMAIN given :
              given[i] = best_signal.ret[1] \/ HierarchyBefore(best_signal.ret[1], given[i])
        /\ \A i, j \in DOMAIN signals : i < j => HierarchyBefore(signals[i], signals[j])

C18_Witness ==
    /\ best_signal.called
    /\ Len(given) = 3
    /\ best_signal.ret = <<given[3]>>
    /\ given[3].trend_strength_score = given[1].trend_strength_score
    /\ Less(given[1].vol_expansion_score, given[3].vol_expansion_score)
    /\ given[3].trend_strength_score = given[2].trend_strength_score
    /\ given[3].vol_expansion_score = given[2].vol_expansion_score
    /\ given[3].liquidity_rank = given[2].liquidity_rank
    /\ SymbolKey(given[3].symbol) < SymbolKey(given[2].symbol)

-----------------------------------------------------------------------------
\* C19: calculate_trade_plan never returns a quantity above the ideal
\* quantity (0.5% of total equity divided by R), and capital_constrained is
\* true exactly when the realised margin is below the ideal margin.
C19_QtyWithinIdeal ==
    trade_plan # <<>> =>
        LET arg == sizing[1]
            plan == trade_plan[1]
        IN  /\ LessEq(plan.qty, ideal_qty(arg.total_equity, plan.r_value))
            /\ plan.capital_constrained <=>
                   Less(plan.margin_required,
                        ideal_margin_required(arg.total_equity, plan.r_value, arg.price))

\* C20: R is volatility times multiplier; the stop is 1R and the target 2R
\* from the entry on opposite sides (LONG: price - R and price + 2R, SHORT:
\* price + R and price - 2R), so the target is twice as far from the entry
\* as the stop; and when the ideal margin fits in the available equity the
\* plan is unconstrained, carries the ideal quantity and risks the full
\* 0.5% of total equity.
C20_LevelsAndFullRisk ==
    trade_plan # <<>> =>
        LET arg == sizing[1]
            plan == trade_plan[1]
            R == FMul(arg.atr_ltf, arg.atr_stop_multiplier)
            stop_distance == Abs(ExactSub(plan.entry_price, plan.stop_price))
            target_distance == Abs(ExactSub(plan.tp_price, plan.entry_price))
            fits == ~Less(arg.available_equity,
                          ideal_margin_required(arg.total_equity, R, arg.price))
        IN  /\ plan.r_value = R
            /\ plan.direction = "LONG" =>
                  /\ plan.stop_price = FSub(plan.entry_price, R)
                  /\ plan.tp_price = FAdd(plan.entry_price, FMul(R, TP_R_MULTIPLIER))
            /\ plan.direction = "SHORT" =>
                  /\ plan.stop_price = FAdd(plan.entry_price, R)
                  /\ plan.tp_price = FSub(plan.entry_price, FMul(R, TP_R_MULTIPLIER))
            /\ target_distance = ExactAdd(stop_distance, stop_distance)
            /\ fits =>
                  /\ ~plan.capital_constrained
                  /\ plan.qty = ideal_qty(arg.total_equity, R)
                  /\ plan.risk_amount = target_risk_amount(arg.total_equity)

\* C21: whenever the ideal margin exceeds the available equity the plan's
\* margin is the available equity, its quantity is margin / price, its
\* risk amount is quantity x R and strictly below the 0.5% target, and the
\* constrained flag is set; and no plan's margin exceeds the available
\* equity.
C21_ConstrainedPath ==
    trade_plan # <<>> =>
        LET arg == sizing[1]
            plan == trade_plan[1]
            exceeds == Less(arg.available_equity,
                            ideal_margin_required(arg.total_equity, plan.r_value, arg.price))
        IN  /\ LessEq(plan.margin_required, arg.available_equity)
            /\ exceeds =>
                  /\ plan.capital_constrained
                  /\ plan.margin_required = arg.available_equity
                  /\ plan.qty = FDiv(plan.margin_required, arg.price)
                  /\ plan.risk_amount = FMul(plan.qty, plan.r_value)
                  /\ Less(plan.risk_amount, target_risk_amount(arg.total_equity))

\* A Decimal is a whole number.
IsWhole(d) == d.x >= 0 \/ BDivMod(d.c, Pow10(-d.x)).r = <<>>

\* C22: for a non-negative value v and a positive increment s, round_step(v, s)
\* is a multiple of s, is not above v, is less than s below v, and round_step
\* leaves it as it is.
C22_RoundsDownIdempotent ==
    (rounded # <<>> /\ rounding[1].step_size.m # <<>>) =>
        LET v == rounding[1].value
            s == rounding[1].step_size
            r == rounded[1]
        IN  /\ IsWhole(DecimalDiv(str(r), str(s)))
            /\ LessEq(r, v)
            /\ Less(ExactSub(v, r), s)
            /\ Len(rounded) = 2 => rounded[2] = r

\* The exact product of two numbers.
ExactMul(x, y) == Dyadic(x.s * y.s, BMul(x.m, y.m), x.e + y.e)

\* The plan as calculate_trade_plan returned it, before any rounding.
SizedPlan ==
    calculate_trade_plan(sizing[1].direction, sizing[1].price, sizing[1].atr_ltf,
                         sizing[1].atr_stop_multiplier, sizing[1].total_equity,
                         sizing[1].available_equity)

\* C23: after the rounding to the tick size the stop is not farther from the
\* entry than the stop as sized, for LONG and SHORT alike, and the loss at the
\* rounded stop with the rounded quantity is not above the risk as sized.
C23_RoundingKeepsRisk ==
    plan_rounded =>
        LET plan == trade_plan[1]
            distance == Abs(ExactSub(plan.entry_price, plan.stop_price))
        IN  /\ LessEq(distance, Abs(ExactSub(SizedPlan.entry_price, SizedPlan.stop_price)))
            /\ LessEq(ExactMul(distance, plan.qty), SizedPlan.risk_amount)

\* The exit conditions of an open position, in their order of priority: the
\* volatility gate no longer passes, the momentum is no longer aligned with
\* the direction, the trend of the current price has flipped against it, the
\* funding rate is beyond the threshold against it.
ExitConditions(a) ==
    LET long == a.current_position.direction = "LONG"
        trend == evaluate_trend(a.snapshot.current_price, a.snapshot.ema_200_htf,
                                a.snapshot.atr_htf)
    IN  <<[reason |-> "VOL_CONTRACTION",
           holds |-> ~check_volatility_gate(a.snapshot, a.bundle).ret],
          [reason |-> "MOMENTUM_FAIL",
           holds |-> IF long THEN ~(a.snapshot.rsi_ltf.v >= a.bundle.rsi_reference)
                     ELSE ~(a.snapshot.rsi_ltf.v <= 100 - a.bundle.rsi_reference)],
          [reason |-> "TREND_INVALID",
           holds |-> IF long THEN trend = "BEAR" ELSE trend = "BULL"],
          [reason |-> "FUNDING_EXTREME",
           holds |-> IF long THEN a.funding_rate < -FUNDING_EXTREME_THRESHOLD
                     ELSE a.funding_rate > FUNDING_EXTREME_THRESHOLD]>>

\* C24: should_exit returns the first exit condition that is true, in the
\* order volatility gate, momentum, trend, funding, and holds exactly when
\* none is true; TP, SL and SAFETY_HALT are never returned.
C24_FirstTrueCondition ==
    exit_result # <<>> =>
        LET conds == ExitConditions(exit_args[1])
            res == exit_result[1]
            true == {i \in DOMAIN conds : conds[i].holds}
        IN  /\ ~res.raised
            /\ res.exit <=> true # {}
            /\ res.exit =>
                  /\ res.reason = conds[CHOOSE i \in true : \A j \in true : i <= j].reason
                  /\ res.reason \notin {"TP", "SL", "SAFETY_HALT"}
            /\ ~res.exit => res.reason = "None"

\* C25: evaluate_signal yields a LONG candidate exactly when the price is
\* above the moving average plus half the higher-timeframe volatility, the
\* momentum is at least the reference and the volatility gate passes; a SHORT
\* candidate exactly when the price is below the average minus half the
\* volatility, the momentum is at most 100 - reference and the gate passes;
\* and nothing otherwise, so nothing for a price within the band (its edges
\* included) and nothing when the gate fails.
C25_SignalIffConditions ==
    eval_result # <<>> =>
        LET a == eval_args[1]
            snap == a.snapshot
            res == eval_result[1]
            gate == check_volatility_gate(snap, a.bundle).ret
            above == 2 * a.price.v > 2 * snap.ema_200_htf.v + snap.atr_htf.v
            below == 2 * a.price.v < 2 * snap.ema_200_htf.v - snap.atr_htf.v
            yields(d) == res.ret # <<>> /\ res.ret[1].direction = d
        IN  /\ ~res.raised
            /\ yields("LONG") <=> (above /\ snap.rsi_ltf.v >= a.bundle.rsi_reference /\ gate)
            /\ yields("SHORT") <=>
                  (below /\ snap.rsi_ltf.v <= 100 - a.bundle.rsi_reference /\ gate)
            /\ res.ret # <<>> => res.ret[1].direction \in {"LONG", "SHORT"}
            /\ (~above /\ ~below) => res.ret = <<>>
            /\ ~gate => res.ret = <<>>

\* An evaluation yielded a LONG candidate.
C25_Witness ==
    /\ eval_result # <<>>
    /\ eval_result[1].ret # <<>>
    /\ eval_result[1].ret[1].direction = "LONG"

\* What evaluate_signal makes of an instrument's own data.
SignalOf(inst) ==
    evaluate_signal(inst.instrument_id, inst.symbol, inst.snapshot.current_price,
                    inst.snapshot, inst.bundle[1], inst.liquidity_rank)

\* The instrument has a bundle and candles, and its evaluation yields a
\* candidate.
Eligible(inst) ==
    /\ inst.bundle # <<>>
    /\ inst.candles
    /\ ~SignalOf(inst).raised
    /\ SignalOf(inst).ret # <<>>

ScanEnded == scan_pc \in {"done", "planned", "failed"}

\* C26: an instrument without an active bundle or with missing indicator
\* values is skipped and nothing more: the cycle does not fail, the eligible
\* instruments of the watchlist are all evaluated, and when there is one a
\* plan is built for one of them.
C26_DataErrorSkipsInstrument ==
    /\ scan_pc # "failed"
    /\ ScanEnded =>
          /\ \A k \in DOMAIN instruments :
                Eligible(instruments[k]) =>
                    \E i \in DOMAIN signals : signals[i].symbol = instruments[k].symbol
          /\ (\E k \in DOMAIN instruments : Eligible(instruments[k])) =>
                /\ scan_pc = "planned"
                /\ \E k \in DOMAIN instruments :
                      /\ Eligible(instruments[k])
                      /\ plan_args[1].signal.symbol = instruments[k].symbol

\* The instrument the Selector's choice was made for.
SelectedInstrument ==
    instruments[CHOOSE k \in DOMAIN instruments :
                    instruments[k].symbol = best_signal.ret[1].symbol]

\* C29: once the Selector has returned a signal, a plan is built, and the
\* price, the volatility, the stop multiplier and the bundle id it is built
\* from are those of the selected instrument.
C29_PlanFromSelectedInstrument ==
    (scan_pc \in {"planned", "failed"} /\ best_signal.ret # <<>>) =>
        /\ scan_pc = "planned"
        /\ plan_args[1].signal = best_signal.ret[1]
        /\ plan_args[1].price = SelectedInstrument.snapshot.current_price
        /\ plan_args[1].atr_ltf = SelectedInstrument.snapshot.atr_ltf
        /\ plan_args[1].atr_stop_multiplier = SelectedInstrument.bundle[1].atr_stop_multiplier
        /\ plan_args[1].parameter_bundle_id = SelectedInstrument.bundle[1].parameter_bundle_id

\* C27: no two runs of on_15m_close are in progress at once, so no two runs
\* that both read "no open position" are on their way to an ENTRY order at
\* the same time.  The program has no guard of its own for this; it holds
\* exactly when the scheduler library never starts the job beside a running
\* instance, which the runs modelled here leave open.
C27_CyclesNeverOverlap ==
    /\ Cardinality(InProgress) <= 1
    /\ \A r1, r2 \in InProgress :
          /\ job_runs[r1].observed = "no_open_position"
          /\ job_runs[r2].observed = "no_open_position"
          => r1 = r2

\* C28: a notification whose delivery or logging failed leaves the cycle as
\* a delivered one does: no exception reaches on_15m_close, after a
\* successful execution the Position is OPEN and the plan FILLED, and after
\* a safety halt the cycle ends in its halt handler.
C28_NotifierFailureIsHarmless ==
    \A n \in notify_status :
        n.status # "SENT" =>
            /\ cycleResult \notin {"error", "escaped"}
            /\ n.type = "TRADE_OPEN" =>
                  /\ cycleResult = "opened"
                  /\ plans[cur].status = "FILLED"
                  /\ \E i \in DOMAIN positions :
                        positions[i].plan = cur /\ positions[i].status = "OPEN"
            /\ n.type = "HALT" => cycleResult = "safety_halt"

\* The delivery of the trade-opened notification failed after a successful
\* execution.
C28_Witness ==
    /\ [type |-> "TRADE_OPEN", status |-> "FAILED", row |-> "none"] \in notify_status
    /\ outcome = "PROTECTED"

\* C30: every step of the execution is recorded before the next one begins:
\* the plan is persisted before its ENTRY order is submitted, and once a
\* step after the entry has begun (a protective order or the emergency
\* close was submitted) the persisted plan no longer reads PLANNED, so that
\* the record tells an entry that was sent from one that never was.
C30_TransitionsRecorded ==
    \A i \in DOMAIN calls :
        /\ calls[i].op = "ENTRY" => calls[i].plan \in DOMAIN plans
        /\ calls[i].op \in {"STOP", "TP", "CLOSE"} =>
              plans[calls[i].plan].status # "PLANNED"

\* C31: once the execution attempt of a cycle has ended, the plan it
\* persisted is no longer PLANNED: it is FILLED when execute_trade
\* succeeded and FAILED after a pre-flight, entry or protection failure
\* (in the cycles whose database sessions did not raise).
C31_PlanReachesTerminal ==
    (Ended /\ cur # 0 /\ cycleResult # "error") =>
        /\ plans[cur].status \in {"FILLED", "FAILED"}
        /\ plans[cur].status = "FILLED" <=> outcome = "PROTECTED"

\* C32: every Position record is OPEN and belongs to a trade plan that is
\* FILLED, no plan has two of them, a FILLED plan has one, and the cycle
\* that created one had its ENTRY, STOP and TP orders accepted.
C32_PositionOnlyAfterSuccess ==
    /\ \A i \in DOMAIN positions :
          /\ positions[i].status = "OPEN"
          /\ positions[i].plan \in DOMAIN plans
          /\ plans[positions[i].plan].status = "FILLED"
          /\ plans[positions[i].plan].symbol = positions[i].symbol
          /\ \A j \in DOMAIN positions : positions[j].plan = positions[i].plan => j = i
          /\ positions[i].plan = cur =>
                /\ outcome = "PROTECTED"
                /\ EntryAccepted /\ StopAccepted /\ TpAccepted
                /\ ~ProtectionFailed
    /\ \A p \in DOMAIN plans :
          plans[p].status = "FILLED" => \E i \in DOMAIN positions : positions[i].plan = p

\* A cycle has created the Position of its plan, and an earlier plan ended
\* without one.
C32_Witness ==
    /\ \E i \in DOMAIN positions : positions[i].plan = cur
    /\ \E p \in DOMAIN plans : \A i \in DOMAIN positions : positions[i].plan # p

\* C33: a cycle submits an ENTRY order only after its pre-trade check read
\* the instrument at 1x leverage with isolated margin: a wrong, empty or
\* unreadable account state lets no ENTRY through.
C33_EntryOnlyAfterObservedAccount ==
    (cur # 0 /\ CallsOf("ENTRY") # {}) => acct = "ok"

\* C34: after an accepted ENTRY both protective submissions are made, in
\* either order of completion; nothing is decided before both have ended,
\* and the end is a function of the two results alone: PROTECTED when both
\* were accepted, otherwise one emergency close, then one cancel-all, then
\* the halt.
C34_JoinBarrier ==
    cur # 0 =>
        /\ Cardinality(CallsOf("STOP")) <= 1 /\ Cardinality(CallsOf("TP")) <= 1
        /\ (EntryAccepted /\ pc # "protect") =>
              CallsOf("STOP") # {} /\ CallsOf("TP") # {}
        /\ \A k \in CallsOf("CLOSE") \cup CallsOf("CANCEL_ALL") :
              \E i \in CallsOf("STOP"), j \in CallsOf("TP") : i < k /\ j < k
        /\ (Ended /\ EntryAccepted) =>
              IF StopAccepted /\ TpAccepted
              THEN /\ outcome = "PROTECTED"
                   /\ CallsOf("CLOSE") = {} /\ CallsOf("CANCEL_ALL") = {}
              ELSE /\ outcome = "HALTED"
                   /\ Cardinality(CallsOf("CLOSE")) = 1
                   /\ Cardinality(CallsOf("CANCEL_ALL")) = 1
                   /\ \A c \in CallsOf("CLOSE"), x \in CallsOf("CANCEL_ALL") : c < x

\* The TP submission failed before the STOP submission ended, the STOP order
\* was accepted after it, and the run ended in the halt.
C34_Witness ==
    /\ Ended
    /\ outcome = "HALTED"
    /\ \E i \in CallsOf("TP"), j \in CallsOf("STOP") :
          i < j /\ calls[i].res = "fail" /\ calls[j].res = "ok"

\* The failed calls among the most recent n recorded calls.
RecentErrors(n) ==
    Cardinality({i \in DOMAIN api_outcomes : i > Len(api_outcomes) - n /\ ~api_outcomes[i]})

\* C35: record_api_call raises the halt exactly when the error rate over the
\* most recent window of calls exceeds 5%, failures older than the window not
\* counting; stated for every window of up to MinRequests calls once more
\* calls than that have been recorded, so that the window has filled and has
\* left calls behind.
C35_HaltIffWindowRateExceeds ==
    Len(api_outcomes) > MinRequests =>
        \E window \in 1..MinRequests :
            halt_raised <=> RecentErrors(window) * 100 > ERROR_THRESHOLD_PERCENT * window

\* C36: with the volatility gate passing and the momentum aligned, should_exit
\* returns TREND_INVALID for a LONG position exactly when the current price
\* is below the moving average minus half the higher-timeframe volatility,
\* and for a SHORT position exactly when it is above the average plus half
\* the volatility; the time of the candle plays no part.
C36_TrendInvalidFromPrice ==
    exit_result # <<>> =>
        LET a == exit_args[1]
            snap == a.snapshot
            res == exit_result[1]
            conds == ExitConditions(a)
            against ==
                IF a.current_position.direction = "LONG"
                THEN 2 * snap.current_price.v < 2 * snap.ema_200_htf.v - snap.atr_htf.v
                ELSE 2 * snap.current_price.v > 2 * snap.ema_200_htf.v + snap.atr_htf.v
        IN  (~conds[1].holds /\ ~conds[2].holds) =>
                ((res.exit /\ res.reason = "TREND_INVALID") <=> against)

\* C40: with the volatility gate passing, the momentum aligned and the trend
\* of the current price not against the position, should_exit reports
\* FUNDING_EXTREME exactly when the funding rate is below -0.1% for a LONG
\* position or above +0.1% for a SHORT one, and holds otherwise: at exactly
\* +/-0.1% and at any rate on the other side.
C40_FundingExtremeBeyondThreshold ==
    exit_result # <<>> =>
        LET a == exit_args[1]
            res == exit_result[1]
            conds == ExitConditions(a)
            beyond ==
                IF a.current_position.direction = "LONG"
                THEN a.funding_rate < -FUNDING_EXTREME_THRESHOLD
                ELSE a.funding_rate > FUNDING_EXTREME_THRESHOLD
        IN  (\A i \in 1..3 : ~conds[i].holds) =>
                IF beyond THEN res = Exit("FUNDING_EXTREME") ELSE res = Hold

\* C39: a cycle that starts while the halt flag is set and a Position is
\* open does not manage the position: it ends skipped, with no exchange call,
\* no notification, and the Position and TradePlan records, the exchange
\* position and the live orders as they were.
C39_HaltedCycleDoesNothing ==
    [][(pc = "idle" /\ haltRow = "true" /\ get_open_position(positions) # 0) =>
          /\ pc' = "idle"
          /\ cycleResult' \in {"skipped_halted", "restarted"}
          /\ calls' = <<>>
          /\ notifs' = {}
          /\ positions' = positions /\ plans' = plans
          /\ exPos' = exPos /\ exOrders' = exOrders]_vars

\* A cycle was skipped under the halt flag while a Position was open.
C39_Witness ==
    /\ haltedAtStart
    /\ cycleResult = "skipped_halted"
    /\ get_open_position(positions) # 0
    /\ positions[get_open_position(positions)].status = "OPEN"

\* C37: a Position is CLOSED, and the trade-closed notification sent, only
\* after an accepted close of a regime exit.  No step of the program marks a
\* Position CLOSED or submits the close of a regime exit:
\* manage_existing_position raises before it reaches
\* close_position_market (TypeError in should_exit for every snapshot
\* get_snapshot builds; NameError on SIDE_SELL / SIDE_BUY behind it), so the
\* only close ever submitted is the emergency close of execute_trade.  The
\* properties of the regime exit are therefore true of every reachable state
\* without their case ever happening.
C37_ClosedOnlyAfterAcceptedClose ==
    /\ \A i \in 1..Len(positions) : positions[i].status = "OPEN"
    /\ "TRADE_CLOSE" \notin notifs
    /\ \A k \in CallsOf("CLOSE") :
          \E j \in CallsOf("ENTRY") : j < k /\ calls[j].plan = calls[k].plan

\* C38: the protective orders of a Position that is CLOSED are not live.
C38_NoOrphanedProtectiveOrders ==
    \A i \in 1..Len(positions) :
        positions[i].status = "CLOSED" =>
            \A o \in exOrders : o.symbol # positions[i].symbol

====
